---- MODULE Spec2Model ----
(***************************************************************************)
(* A model of authful-mcp-proxy: the OIDC client (token cache, refresh     *)
(* grant, authorization-code flow with a loopback callback listener), the  *)
(* authenticating HTTP middleware (bearer injection, renew and retry on    *)
(* 401), the token validity arithmetic and the stdio <-> HTTP bridge loop. *)
(*                                                                         *)
(* Spec       : the program: one task sends requests through the           *)
(*              middleware, which uses the OidcClient                      *)
(*              (src/src/middleware.rs, src/src/oidc/client.rs,            *)
(*              src/src/oidc/callback.rs, src/src/oidc/token.rs).          *)
(* SpecConc   : several tasks calling get_token and renew_token on one     *)
(*              shared OidcClient (src/src/oidc/client.rs).                *)
(* SpecValid  : TokenInfo::is_valid applied to bundles and clock readings  *)
(*              drawn from bounded sets (src/src/oidc/token.rs).           *)
(* SpecBridge : the message forwarding loop of run_proxy_server            *)
(*              (src/src/proxy/server.rs).                                 *)
(***************************************************************************)
EXTENDS Integers, Sequences, FiniteSets, TLC

(***************************************************************************)
(* Bounds of the model.                                                    *)
(***************************************************************************)
\* total number of requests handed to AuthMiddleware::handle in one run
MaxRequests == 2
\* total number of get_token / renew_token calls made by the tasks of SpecConc
MaxCalls == 2
\* the clock stops advancing once it has reached MaxNow (seconds)
MaxNow == 300
\* the clock advances in steps of TickSecs seconds
TickSecs == 300
\* SpecValid: clock readings 0..ValidMaxNow, expiry times 0..ValidMaxExpiresAt
ValidMaxNow == 20
ValidMaxExpiresAt == 85
\* SpecBridge: number of lines read from stdin in one run
MaxLines == 2

(***************************************************************************)
(* Program constants.                                                      *)
(***************************************************************************)
TOKEN_EXPIRY_BUFFER_SECS == 60
CALLBACK_TIMEOUT_SECS == 300

(***************************************************************************)
(* Option<T>: None is the empty sequence, Some(x) the one-element one.     *)
(***************************************************************************)
None == << >>
Some(x) == << x >>
IsSome(o) == Len(o) = 1
IsNone(o) == Len(o) = 0
Unwrap(o) == o[1]

(***************************************************************************)
(* Strings are sequences of byte values.                                   *)
(***************************************************************************)
EmptyString == << >>
\* "Bearer " as bytes
BearerPrefix == << 66, 101, 97, 114, 101, 114, 32 >>

\* the tasks that share the OidcClient (Arc<OidcClient>)
Tasks == {1, 2}
NoTask == 0
\* the task of run_proxy_server, the one user of the middleware
BridgeTask == 1

(***************************************************************************)
(* TokenResponse (token.rs:32-43), as the token endpoint may answer.       *)
(* access tokens: "A", "B", the empty string, and "\n" (not a legal        *)
(* header value).  refresh tokens: "R".                                    *)
(***************************************************************************)
TokA == << 65 >>
TokB == << 66 >>
TokNewline == << 10 >>
RefreshR == << 82 >>

TokenResponse(at, rt, ei) ==
    [access_token |-> at, refresh_token |-> rt, expires_in |-> ei,
     token_type |-> Some(<< 66 >>), scope |-> None]

TokenResponses ==
    { TokenResponse(TokA, Some(RefreshR), Some(3600)),
      TokenResponse(TokB, None, None),
      TokenResponse(TokB, Some(RefreshR), Some(30)),
      TokenResponse(EmptyString, None, Some(120)),
      TokenResponse(TokNewline, None, Some(120)) }

(***************************************************************************)
(* TokenInfo (token.rs:14-29) and its conversions.                         *)
(***************************************************************************)
\* impl From<TokenResponse> for TokenInfo, evaluated at clock reading t
FromTokenResponse(response, t) ==
    [access_token |-> response.access_token,
     refresh_token |-> response.refresh_token,
     expires_in |-> response.expires_in,
     token_type |-> response.token_type,
     scope |-> response.scope,
     expires_at |-> IF IsSome(response.expires_in)
                    THEN Some(t + Unwrap(response.expires_in))
                    ELSE None]

\* u64::saturating_sub
SaturatingSub(a, b) == IF a >= b THEN a - b ELSE 0

\* is_valid comparing with expires_at itself
IsValidWithoutBuffer(token, t) ==
    IF token.access_token = EmptyString THEN FALSE
    ELSE IF IsSome(token.expires_at)
         THEN t < Unwrap(token.expires_at)
         ELSE TRUE

\* TokenInfo::is_valid, evaluated at clock reading t
IsValid(token, t) ==
    IF token.access_token = EmptyString THEN FALSE
    ELSE IF IsSome(token.expires_at)
         THEN t < SaturatingSub(Unwrap(token.expires_at), TOKEN_EXPIRY_BUFFER_SECS)
         ELSE TRUE

\* TokenInfo::can_refresh
CanRefresh(token) == IsSome(token.refresh_token)

\* serde serialization of TokenInfo: expires_at is #[serde(skip)]
ToJson(token) ==
    [access_token |-> token.access_token,
     refresh_token |-> token.refresh_token,
     expires_in |-> token.expires_in,
     token_type |-> token.token_type,
     scope |-> token.scope]

\* serde deserialization of TokenInfo: the skipped expires_at defaults to None
FromJson(json) ==
    [access_token |-> json.access_token,
     refresh_token |-> json.refresh_token,
     expires_in |-> json.expires_in,
     token_type |-> json.token_type,
     scope |-> json.scope,
     expires_at |-> None]

(***************************************************************************)
(* The token cache file of the issuer.                                     *)
(***************************************************************************)
NullJson ==
    [access_token |-> EmptyString, refresh_token |-> None, expires_in |-> None,
     token_type |-> None, scope |-> None]
NoFile == [exists |-> FALSE, parses |-> FALSE, json |-> NullJson]
GoodFile(json) == [exists |-> TRUE, parses |-> TRUE, json |-> json]
\* a file left truncated by a failed std::fs::write
TruncatedFile == [exists |-> TRUE, parses |-> FALSE, json |-> NullJson]

\* TokenInfo::save_to_disk: io is what the file system does
SaveOutcomes == {"ok", "err", "err_truncated"}
SaveToDisk(token, file, io) ==
    CASE io = "ok" -> GoodFile(ToJson(token))
      [] io = "err" -> file
      [] io = "err_truncated" -> TruncatedFile

\* LoadFromDisk giving every loaded bundle an expiry that has passed
LoadFromDiskAsExpired(file, t) ==
    IF ~file.exists THEN None
    ELSE Some([FromJson(file.json) EXCEPT !.expires_at = Some(0)])

\* LoadFromDisk without the recomputation of lines 156-168
LoadFromDiskNoRecompute(file, t) ==
    IF ~file.exists THEN None ELSE Some(FromJson(file.json))

\* TokenInfo::load_from_disk on a file that exists and parses (Ok(Some(..)));
\* a missing file gives Ok(None)
LoadFromDisk(file, t) ==
    IF ~file.exists THEN None
    ELSE LET token_info == FromJson(file.json)
         IN  Some(IF IsSome(token_info.expires_in)
                  THEN [token_info EXCEPT
                          !.expires_at = Some(t + Unwrap(token_info.expires_in))]
                  ELSE token_info)


(***************************************************************************)
(* HTTP pieces.                                                            *)
(***************************************************************************)
\* http::HeaderValue::from_str accepts a byte b iff
\* (b >= 32 && b != 127) || b == '\t'
IsVisibleByte(b) == (b >= 32 /\ b # 127) \/ b = 9

\* format!("Bearer {}", token).parse::<HeaderValue>() succeeds
BearerParses(token) ==
    LET value == BearerPrefix \o token
    IN  \A i \in 1..Len(value) : IsVisibleByte(value[i])

\* the requests handed to the middleware: method, URL, body, a header
\* other than Authorization, and the Authorization header the caller may
\* have set; cloneable is whether Request::try_clone gives Some (false for
\* a streaming body)
Request(body, authorization, cloneable) ==
    [method |-> "POST", url |-> "backend_url", body |-> body,
     custom |-> Some(1), authorization |-> authorization,
     cloneable |-> cloneable]
Requests ==
    { Request(1, None, TRUE), Request(1, None, FALSE),
      Request(2, Some(<< 66 >>), TRUE) }
NoRequest == [method |-> "none", url |-> "none", body |-> 0, custom |-> None,
              authorization |-> None, cloneable |-> TRUE]

\* WithBearer putting the header on a request built anew from method, URL
\* and body
WithBearerOnNewRequest(r, token) ==
    [r EXCEPT !.custom = None, !.authorization = Some(BearerPrefix \o token)]

\* headers_mut().insert(AUTHORIZATION, "Bearer <token>")
WithBearer(r, token) == [r EXCEPT !.authorization = Some(BearerPrefix \o token)]

\* what the backend may answer; n is the number of the attempt answered
Statuses == {200, 401, 500}
Response(status, n) == [status |-> status, n |-> n]
NoResponse == Response(0, 0)
UNAUTHORIZED == 401

\* Result<Response, reqwest_middleware::Error>
OkResponse(resp) == [ok |-> TRUE, resp |-> resp, err |-> "none"]
ErrResponse(e) == [ok |-> FALSE, resp |-> NoResponse, err |-> e]
\* what next.run(..).await gives for attempt n
UpstreamResults(n) ==
    { OkResponse(Response(s, n)) : s \in Statuses } \cup { ErrResponse("Reqwest") }

\* Result<String, ProxyError> of get_token / renew_token
OkToken(token) == [ok |-> TRUE, token |-> token, err |-> "none"]
ErrToken(e) == [ok |-> FALSE, token |-> EmptyString, err |-> e]
NoTokenResult == ErrToken("unset")

\* what the token endpoint may do with a POST
TokenEndpointFailures == {"Http", "Status", "Json"}
TokenEndpointOutcomes ==
    { [kind |-> k, response |-> TokenResponse(EmptyString, None, None)] :
        k \in TokenEndpointFailures }
    \cup { [kind |-> "ok", response |-> r] : r \in TokenResponses }

(***************************************************************************)
(* The callback listener (callback.rs).                                    *)
(***************************************************************************)
\* values of the state parameter and of the authorization code
States == {1, 2}
CallbackQuery(code, state, error, error_description) ==
    [code |-> code, state |-> state, error |-> error,
     error_description |-> error_description]
CallbackQueries ==
    { CallbackQuery(Some(1), Some(s), None, None) : s \in States }
    \cup { CallbackQuery(Some(1), Some(1), Some(1), None),
           CallbackQuery(None, Some(1), None, None) }

\* every combination of present and absent parameters
AllCallbackQueries ==
    { CallbackQuery(code, s, error, error_description) :
        code \in { None, Some(1) }, s \in { None } \cup { Some(x) : x \in States },
        error \in { None, Some(1) }, error_description \in { None, Some(1) } }

\* "No description provided", which is no description a provider sends
NoDescriptionProvided == 0

\* Result<CallbackResult, ProxyError> as sent through the oneshot channel;
\* error and description are the two values formatted into the message
\* "OAuth error: {} - {}"
OkCallback(code, state) ==
    [ok |-> TRUE, code |-> code, state |-> state, err |-> "none",
     error |-> None, description |-> None]
ErrCallback(e) ==
    [ok |-> FALSE, code |-> 0, state |-> 0, err |-> e,
     error |-> None, description |-> None]
OAuthErrCallback(error, description) ==
    [ok |-> FALSE, code |-> 0, state |-> 0, err |-> "Callback: OAuth error",
     error |-> Some(error), description |-> Some(description)]

\* HandleCallbackResult with the match on code and state before the test
\* of error
HandleCallbackCodeFirst(params) ==
    IF IsSome(params.code) /\ IsSome(params.state)
    THEN OkCallback(Unwrap(params.code), Unwrap(params.state))
    ELSE IF IsSome(params.error)
         THEN OAuthErrCallback(Unwrap(params.error),
                  IF IsSome(params.error_description)
                  THEN Unwrap(params.error_description)
                  ELSE NoDescriptionProvided)
         ELSE ErrCallback("Callback: Missing code or state parameter in callback")

\* the value handle_callback sends for a query
HandleCallbackResult(params) ==
    IF IsSome(params.error)
    THEN OAuthErrCallback(Unwrap(params.error),
             IF IsSome(params.error_description)
             THEN Unwrap(params.error_description)
             ELSE NoDescriptionProvided)
    ELSE IF IsSome(params.code) /\ IsSome(params.state)
         THEN OkCallback(Unwrap(params.code), Unwrap(params.state))
         ELSE ErrCallback("Callback: Missing code or state parameter in callback")

(***************************************************************************)
(* State.                                                                  *)
(***************************************************************************)
VARIABLES
    \* OidcClient.token_info: Arc<RwLock<Option<TokenInfo>>>
    token_info,
    \* the RwLock: tasks holding a read guard, task holding the write guard
    rlock, wlock,
    \* OidcClient.oidc_config: whether authorization_endpoint parses as a URL
    auth_endpoint_parses,
    \* the token cache file
    disk,
    \* the system clock, seconds since the epoch
    now,
    \* the task whose listener is bound to the redirect port
    port_owner,
    \* number of requests handed to the middleware (calls made on the
    \* client, in SpecConc) so far
    started,
    \* per task: position, the request, the requests forwarded upstream,
    \* the first response, the result of handle
    pc, req, sent, first, result,
    \* per task: which call of the middleware the renewal returns to, its result
    ret, tokres,
    \* per task, in perform_auth_flow: state, the oneshot sender still in
    \* the Mutex<Option<..>>, the value in the channel, the timer's deadline
    state, tx, chan, deadline,
    \* per task: the TokenInfo parsed and saved, about to be cached
    tokens,
    \* per task, per phase of handle (1: get_token, 2: after the 401):
    \* what the task has done for the current request
    h,
    \* SpecValid: a TokenInfo, a clock reading, what is_valid returned
    v_token, v_now, v_valid,
    \* SpecBridge, run_proxy_server: position; whether a message log is
    \* configured; lines read so far; the trimmed line in hand; the reply
    \* to write; what was written to stdout; the message log; the result
    b_pc, b_logging, b_nread, b_line, b_reply, b_stdout, b_log, b_result,
    \* SpecBridge: the lines read that are non-empty JSON once trimmed, and
    \* the request bodies handed to the HTTP client
    b_accepted, b_forwarded,
    \* SpecBridge: the HTTP status of the response in hand (0: none)
    b_status,
    \* SpecMain, main and run_proxy: position, the exit code of the process,
    \* the way the process ended
    m_pc, m_exit, m_end,
    \* SpecCallback, run_callback_server: position; the oneshot sender still
    \* in the Mutex<Option<..>>; the value sent through the channel; the
    \* listener socket is bound; the clock; the timer's deadline; requests
    \* handled; the last request handled; the result returned
    l_pc, l_tx, l_chan, l_bound, l_now, l_deadline, l_served, l_query, l_result,
    \* SpecFun: the function last applied, its arguments, its result
    f_op, f_in, f_out

clientVars == << token_info, rlock, wlock, auth_endpoint_parses, disk, now,
                 port_owner >>
taskVars == << started, pc, req, sent, first, result, ret, tokres, state, tx,
               chan, deadline, tokens, h >>

validVars == << v_token, v_now, v_valid >>
bridgeVars == << b_pc, b_logging, b_nread, b_line, b_reply, b_stdout, b_log,
                b_result, b_accepted, b_forwarded, b_status >>
mainVars == << m_pc, m_exit, m_end >>
listenerVars == << l_pc, l_tx, l_chan, l_bound, l_now, l_deadline, l_served,
                  l_query, l_result >>
funVars == << f_op, f_in, f_out >>
vars == << clientVars, taskVars, validVars, bridgeVars, mainVars, listenerVars,
          funVars >>

\* nothing done yet for the current request
NoHistory ==
    [renews |-> << 0, 0 >>, refreshes |-> << 0, 0 >>, refresh_posts |-> << 0, 0 >>,
     flows |-> << 0, 0 >>, browsers |-> << 0, 0 >>, exchange_posts |-> << 0, 0 >>,
     saves |-> << 0, 0 >>, cache_writes |-> << 0, 0 >>]

\* the phase of handle a task is in: 1 until the first response, then 2
Phase(t) == IF ret[t] = "step3" THEN 2 ELSE 1
\* where get_token / renew_token returns to: lines 35-39 or 61-65 of
\* middleware.rs, or a task that called the client itself
RetPc(t) ==
    CASE ret[t] = "step1" -> "mw_step1"
      [] ret[t] = "step3" -> "mw_step3"
      [] ret[t] = "caller" -> "returned"

\* the cache files a run may start with: none, or one saved by an earlier run
InitialFiles ==
    { NoFile,
      GoodFile(ToJson(FromTokenResponse(TokenResponse(TokA, Some(RefreshR), Some(120)), 0))),
      GoodFile(ToJson(FromTokenResponse(TokenResponse(TokB, None, None), 0))) }

\* OidcClient::new has succeeded: discovery done, cache file loaded
ClientInit ==
    /\ disk \in InitialFiles
    /\ now = 0
    /\ token_info = LoadFromDisk(disk, now)
    /\ rlock = {}
    /\ wlock = NoTask
    /\ auth_endpoint_parses \in BOOLEAN
    /\ port_owner = NoTask
    /\ started = 0
    /\ pc = [t \in Tasks |-> "idle"]
    /\ req = [t \in Tasks |-> NoRequest]
    /\ sent = [t \in Tasks |-> << >>]
    /\ first = [t \in Tasks |-> None]
    /\ result = [t \in Tasks |-> None]
    /\ ret = [t \in Tasks |-> "step1"]
    /\ tokres = [t \in Tasks |-> NoTokenResult]
    /\ state = [t \in Tasks |-> 0]
    /\ tx = [t \in Tasks |-> FALSE]
    /\ chan = [t \in Tasks |-> None]
    /\ deadline = [t \in Tasks |-> 0]
    /\ tokens = [t \in Tasks |-> None]
    /\ h = [t \in Tasks |-> NoHistory]

\* RwLock::read / RwLock::write can be granted
CanRead == wlock = NoTask
CanWrite == wlock = NoTask /\ rlock = {}

(***************************************************************************)
(* The clock.                                                              *)
(***************************************************************************)
Tick ==
    /\ now + TickSecs <= MaxNow
    /\ now' = now + TickSecs
    /\ UNCHANGED << token_info, rlock, wlock, auth_endpoint_parses, disk,
                    port_owner, taskVars >>
    /\ UNCHANGED << validVars, bridgeVars, mainVars, listenerVars, funVars >>

(***************************************************************************)
(* AuthMiddleware::handle (middleware.rs:28-82).                           *)
(***************************************************************************)
\* a request enters handle, which calls get_token (line 35)
Handle(t, r) ==
    /\ pc[t] = "idle"
    /\ started < MaxRequests
    /\ started' = started + 1
    /\ req' = [req EXCEPT ![t] = r]
    /\ ret' = [ret EXCEPT ![t] = "step1"]
    /\ pc' = [pc EXCEPT ![t] = "gt_lock"]
    /\ UNCHANGED << clientVars, sent, first, result, tokres, state, tx, chan,
                    deadline, tokens, h >>
    /\ UNCHANGED << validVars, bridgeVars, mainVars, listenerVars, funVars >>

\* lines 35-54: get_token has returned; inject the header and send
InjectAndSend(t) ==
    /\ pc[t] = "mw_step1"
    /\ IF ~tokres[t].ok
       THEN /\ result' = [result EXCEPT ![t] = Some(ErrResponse(tokres[t].err))]
            /\ pc' = [pc EXCEPT ![t] = "done"]
            /\ UNCHANGED sent
       ELSE IF ~BearerParses(tokres[t].token)
       THEN /\ result' = [result EXCEPT ![t] = Some(ErrResponse("Invalid token"))]
            /\ pc' = [pc EXCEPT ![t] = "done"]
            /\ UNCHANGED sent
       ELSE IF ~req[t].cloneable
       THEN \* req.try_clone().unwrap() panics
            /\ pc' = [pc EXCEPT ![t] = "panicked"]
            /\ UNCHANGED << sent, result >>
       ELSE /\ sent' = [sent EXCEPT ![t] = << WithBearer(req[t], tokres[t].token) >>]
            /\ pc' = [pc EXCEPT ![t] = "await1"]
            /\ UNCHANGED result
    /\ UNCHANGED << clientVars, started, req, first, ret, tokres, state, tx,
                    chan, deadline, tokens, h >>
    /\ UNCHANGED << validVars, bridgeVars, mainVars, listenerVars, funVars >>

\* FirstResponse renewing and retrying on every error status, not only 401
FirstResponseRetriesOnErrorStatus(t, r) ==
    /\ pc[t] = "await1"
    /\ IF ~r.ok
       THEN /\ result' = [result EXCEPT ![t] = Some(r)]
            /\ pc' = [pc EXCEPT ![t] = "done"]
            /\ UNCHANGED << first, ret, h >>
       ELSE IF r.resp.status >= 400
       THEN /\ first' = [first EXCEPT ![t] = Some(r.resp)]
            /\ ret' = [ret EXCEPT ![t] = "step3"]
            /\ h' = [h EXCEPT ![t].renews[2] = @ + 1]
            /\ pc' = [pc EXCEPT ![t] = "rn_lock"]
            /\ UNCHANGED result
       ELSE /\ first' = [first EXCEPT ![t] = Some(r.resp)]
            /\ result' = [result EXCEPT ![t] = Some(r)]
            /\ pc' = [pc EXCEPT ![t] = "done"]
            /\ UNCHANGED << ret, h >>
    /\ UNCHANGED << clientVars, started, req, sent, tokres, state, tx, chan,
                    deadline, tokens >>
    /\ UNCHANGED << validVars, bridgeVars, mainVars, listenerVars, funVars >>

\* FirstResponse returning the 401 without a renewal when the token of
\* the first attempt came out of a renewal
FirstResponseTrustsFreshToken(t, r) ==
    /\ pc[t] = "await1"
    /\ IF ~r.ok
       THEN /\ result' = [result EXCEPT ![t] = Some(r)]
            /\ pc' = [pc EXCEPT ![t] = "done"]
            /\ UNCHANGED << first, ret, h >>
       ELSE IF r.resp.status = UNAUTHORIZED /\ h[t].renews[1] = 0
       THEN /\ first' = [first EXCEPT ![t] = Some(r.resp)]
            /\ ret' = [ret EXCEPT ![t] = "step3"]
            /\ h' = [h EXCEPT ![t].renews[2] = @ + 1]
            /\ pc' = [pc EXCEPT ![t] = "rn_lock"]
            /\ UNCHANGED result
       ELSE /\ first' = [first EXCEPT ![t] = Some(r.resp)]
            /\ result' = [result EXCEPT ![t] = Some(r)]
            /\ pc' = [pc EXCEPT ![t] = "done"]
            /\ UNCHANGED << ret, h >>
    /\ UNCHANGED << clientVars, started, req, sent, tokres, state, tx, chan,
                    deadline, tokens >>
    /\ UNCHANGED << validVars, bridgeVars, mainVars, listenerVars, funVars >>

\* lines 51-57, 81: the first attempt completes
FirstResponse(t, r) ==
    /\ pc[t] = "await1"
    /\ IF ~r.ok
       THEN /\ result' = [result EXCEPT ![t] = Some(r)]
            /\ pc' = [pc EXCEPT ![t] = "done"]
            /\ UNCHANGED << first, ret, h >>
       ELSE IF r.resp.status = UNAUTHORIZED
       THEN \* line 63: renew_token is called
            /\ first' = [first EXCEPT ![t] = Some(r.resp)]
            /\ ret' = [ret EXCEPT ![t] = "step3"]
            /\ h' = [h EXCEPT ![t].renews[2] = @ + 1]
            /\ pc' = [pc EXCEPT ![t] = "rn_lock"]
            /\ UNCHANGED result
       ELSE /\ first' = [first EXCEPT ![t] = Some(r.resp)]
            /\ result' = [result EXCEPT ![t] = Some(r)]
            /\ pc' = [pc EXCEPT ![t] = "done"]
            /\ UNCHANGED << ret, h >>
    /\ UNCHANGED << clientVars, started, req, sent, tokres, state, tx, chan,
                    deadline, tokens >>
    /\ UNCHANGED << validVars, bridgeVars, mainVars, listenerVars, funVars >>

\* RetryWithNewToken retrying with the header of the first attempt
RetryWithStaleToken(t) ==
    /\ pc[t] = "mw_step3"
    /\ IF ~tokres[t].ok
       THEN /\ result' = [result EXCEPT ![t] = Some(ErrResponse(tokres[t].err))]
            /\ pc' = [pc EXCEPT ![t] = "done"]
            /\ UNCHANGED sent
       ELSE IF ~BearerParses(tokres[t].token)
       THEN /\ result' = [result EXCEPT ![t] = Some(ErrResponse("Invalid token"))]
            /\ pc' = [pc EXCEPT ![t] = "done"]
            /\ UNCHANGED sent
       ELSE /\ sent' = [sent EXCEPT ![t] = Append(@, @[1])]
            /\ pc' = [pc EXCEPT ![t] = "await2"]
            /\ UNCHANGED result
    /\ UNCHANGED << clientVars, started, req, first, ret, tokres, state, tx,
                    chan, deadline, tokens, h >>
    /\ UNCHANGED << validVars, bridgeVars, mainVars, listenerVars, funVars >>

\* RetryWithNewToken falling back to the 401 response when renewal fails
RetryDegradesToUnauthorized(t) ==
    /\ pc[t] = "mw_step3"
    /\ IF ~tokres[t].ok
       THEN /\ result' = [result EXCEPT ![t] = Some(OkResponse(Unwrap(first[t])))]
            /\ pc' = [pc EXCEPT ![t] = "done"]
            /\ UNCHANGED sent
       ELSE IF ~BearerParses(tokres[t].token)
       THEN /\ result' = [result EXCEPT ![t] = Some(ErrResponse("Invalid token"))]
            /\ pc' = [pc EXCEPT ![t] = "done"]
            /\ UNCHANGED sent
       ELSE /\ sent' = [sent EXCEPT
                          ![t] = Append(@, WithBearer(req[t], tokres[t].token))]
            /\ pc' = [pc EXCEPT ![t] = "await2"]
            /\ UNCHANGED result
    /\ UNCHANGED << clientVars, started, req, first, ret, tokres, state, tx,
                    chan, deadline, tokens, h >>
    /\ UNCHANGED << validVars, bridgeVars, mainVars, listenerVars, funVars >>

\* lines 61-78: renew_token has returned; update the header and retry
RetryWithNewToken(t) ==
    /\ pc[t] = "mw_step3"
    /\ IF ~tokres[t].ok
       THEN /\ result' = [result EXCEPT ![t] = Some(ErrResponse(tokres[t].err))]
            /\ pc' = [pc EXCEPT ![t] = "done"]
            /\ UNCHANGED sent
       ELSE IF ~BearerParses(tokres[t].token)
       THEN /\ result' = [result EXCEPT ![t] = Some(ErrResponse("Invalid token"))]
            /\ pc' = [pc EXCEPT ![t] = "done"]
            /\ UNCHANGED sent
       ELSE /\ sent' = [sent EXCEPT
                          ![t] = Append(@, WithBearer(req[t], tokres[t].token))]
            /\ pc' = [pc EXCEPT ![t] = "await2"]
            /\ UNCHANGED result
    /\ UNCHANGED << clientVars, started, req, first, ret, tokres, state, tx,
                    chan, deadline, tokens, h >>
    /\ UNCHANGED << validVars, bridgeVars, mainVars, listenerVars, funVars >>

\* SecondResponse renewing and retrying again when the retry gets a 401
SecondResponseRetriesAgain(t, r) ==
    /\ pc[t] = "await2"
    /\ IF r.ok /\ r.resp.status = UNAUTHORIZED
       THEN /\ pc' = [pc EXCEPT ![t] = "rn_lock"]
            /\ UNCHANGED result
       ELSE /\ result' = [result EXCEPT ![t] = Some(r)]
            /\ pc' = [pc EXCEPT ![t] = "done"]
    /\ UNCHANGED << clientVars, started, req, sent, first, ret, tokres, state,
                    tx, chan, deadline, tokens, h >>
    /\ UNCHANGED << validVars, bridgeVars, mainVars, listenerVars, funVars >>

\* line 78: the retry completes and its result is returned
SecondResponse(t, r) ==
    /\ pc[t] = "await2"
    /\ result' = [result EXCEPT ![t] = Some(r)]
    /\ pc' = [pc EXCEPT ![t] = "done"]
    /\ UNCHANGED << clientVars, started, req, sent, first, ret, tokres, state,
                    tx, chan, deadline, tokens, h >>
    /\ UNCHANGED << validVars, bridgeVars, mainVars, listenerVars, funVars >>

\* the caller has taken the result; the task is free for the next request
Finish(t) ==
    /\ pc[t] = "done"
    /\ pc' = [pc EXCEPT ![t] = "idle"]
    /\ req' = [req EXCEPT ![t] = NoRequest]
    /\ sent' = [sent EXCEPT ![t] = << >>]
    /\ first' = [first EXCEPT ![t] = None]
    /\ result' = [result EXCEPT ![t] = None]
    /\ ret' = [ret EXCEPT ![t] = "step1"]
    /\ tokres' = [tokres EXCEPT ![t] = NoTokenResult]
    /\ state' = [state EXCEPT ![t] = 0]
    /\ h' = [h EXCEPT ![t] = NoHistory]
    /\ UNCHANGED << clientVars, started, tx, chan, deadline, tokens >>
    /\ UNCHANGED << validVars, bridgeVars, mainVars, listenerVars, funVars >>

(***************************************************************************)
(* OidcClient::get_token (client.rs:50-63).                                *)
(***************************************************************************)
\* line 53: self.token_info.read().await
GetTokenLock(t) ==
    /\ pc[t] = "gt_lock"
    /\ CanRead
    /\ rlock' = rlock \cup {t}
    /\ pc' = [pc EXCEPT ![t] = "gt_read"]
    /\ UNCHANGED << token_info, wlock, auth_endpoint_parses, disk, now,
                    port_owner, started, req, sent, first, result, ret, tokres,
                    state, tx, chan, deadline, tokens, h >>
    /\ UNCHANGED << validVars, bridgeVars, mainVars, listenerVars, funVars >>

\* GetTokenCheck renewing without looking at the cached bundle
GetTokenAlwaysRenews(t) ==
    /\ pc[t] = "gt_read"
    /\ rlock' = rlock \ {t}
    /\ h' = [h EXCEPT ![t].renews[1] = @ + 1]
    /\ pc' = [pc EXCEPT ![t] = "rn_lock"]
    /\ UNCHANGED << token_info, wlock, auth_endpoint_parses, disk, now,
                    port_owner, started, req, sent, first, result, ret, tokres,
                    state, tx, chan, deadline, tokens >>
    /\ UNCHANGED << validVars, bridgeVars, mainVars, listenerVars, funVars >>

\* lines 54-62: under the read guard, return the cached token if it is
\* valid; otherwise drop the guard and call renew_token
GetTokenCheck(t) ==
    /\ pc[t] = "gt_read"
    /\ rlock' = rlock \ {t}
    /\ IF IsSome(token_info) /\ IsValid(Unwrap(token_info), now)
       THEN /\ tokres' = [tokres EXCEPT
                            ![t] = OkToken(Unwrap(token_info).access_token)]
            /\ pc' = [pc EXCEPT ![t] = RetPc(t)]
            /\ UNCHANGED h
       ELSE /\ h' = [h EXCEPT ![t].renews[1] = @ + 1]
            /\ pc' = [pc EXCEPT ![t] = "rn_lock"]
            /\ UNCHANGED tokres
    /\ UNCHANGED << token_info, wlock, auth_endpoint_parses, disk, now,
                    port_owner, started, req, sent, first, result, ret, state,
                    tx, chan, deadline, tokens >>
    /\ UNCHANGED << validVars, bridgeVars, mainVars, listenerVars, funVars >>

(***************************************************************************)
(* OidcClient::renew_token (client.rs:66-84).                              *)
(***************************************************************************)
\* line 69: self.token_info.read().await
RenewLock(t) ==
    /\ pc[t] = "rn_lock"
    /\ CanRead
    /\ rlock' = rlock \cup {t}
    /\ pc' = [pc EXCEPT ![t] = "rn_read"]
    /\ UNCHANGED << token_info, wlock, auth_endpoint_parses, disk, now,
                    port_owner, started, req, sent, first, result, ret, tokres,
                    state, tx, chan, deadline, tokens, h >>
    /\ UNCHANGED << validVars, bridgeVars, mainVars, listenerVars, funVars >>

\* lines 68-83: can_refresh decides between refresh_access_token and
\* perform_auth_flow
RenewCheck(t) ==
    /\ pc[t] = "rn_read"
    /\ rlock' = rlock \ {t}
    /\ IF IsSome(token_info) /\ CanRefresh(Unwrap(token_info))
       THEN /\ h' = [h EXCEPT ![t].refreshes[Phase(t)] = @ + 1]
            /\ pc' = [pc EXCEPT ![t] = "rf_lock"]
       ELSE /\ pc' = [pc EXCEPT ![t] = "flow_start"]
            /\ UNCHANGED h
    /\ UNCHANGED << token_info, wlock, auth_endpoint_parses, disk, now,
                    port_owner, started, req, sent, first, result, ret, tokres,
                    state, tx, chan, deadline, tokens >>
    /\ UNCHANGED << validVars, bridgeVars, mainVars, listenerVars, funVars >>

(***************************************************************************)
(* OidcClient::refresh_access_token (client.rs:137-189).  Every error it   *)
(* returns is logged by renew_token (line 77), which goes on to            *)
(* perform_auth_flow (line 83).                                            *)
(***************************************************************************)
\* line 139: self.token_info.read().await
RefreshLock(t) ==
    /\ pc[t] = "rf_lock"
    /\ CanRead
    /\ rlock' = rlock \cup {t}
    /\ pc' = [pc EXCEPT ![t] = "rf_read"]
    /\ UNCHANGED << token_info, wlock, auth_endpoint_parses, disk, now,
                    port_owner, started, req, sent, first, result, ret, tokres,
                    state, tx, chan, deadline, tokens, h >>
    /\ UNCHANGED << validVars, bridgeVars, mainVars, listenerVars, funVars >>

\* RefreshRead keeping the read guard while the refresh grant is POSTed
RefreshReadKeepsGuard(t) ==
    /\ pc[t] = "rf_read"
    /\ IF IsSome(token_info) /\ IsSome(Unwrap(token_info).refresh_token)
       THEN /\ h' = [h EXCEPT ![t].refresh_posts[Phase(t)] = @ + 1]
            /\ pc' = [pc EXCEPT ![t] = "rf_post"]
            /\ UNCHANGED rlock
       ELSE /\ pc' = [pc EXCEPT ![t] = "flow_start"]
            /\ rlock' = rlock \ {t}
            /\ UNCHANGED h
    /\ UNCHANGED << token_info, wlock, auth_endpoint_parses, disk, now,
                    port_owner, started, req, sent, first, result, ret, tokres,
                    state, tx, chan, deadline, tokens >>
    /\ UNCHANGED << validVars, bridgeVars, mainVars, listenerVars, funVars >>

\* lines 138-166: read the refresh token and POST the refresh grant
RefreshRead(t) ==
    /\ pc[t] = "rf_read"
    /\ rlock' = rlock \ {t}
    /\ IF IsSome(token_info) /\ IsSome(Unwrap(token_info).refresh_token)
       THEN /\ h' = [h EXCEPT ![t].refresh_posts[Phase(t)] = @ + 1]
            /\ pc' = [pc EXCEPT ![t] = "rf_post"]
       ELSE \* Token("No refresh token available")
            /\ pc' = [pc EXCEPT ![t] = "flow_start"]
            /\ UNCHANGED h
    /\ UNCHANGED << token_info, wlock, auth_endpoint_parses, disk, now,
                    port_owner, started, req, sent, first, result, ret, tokres,
                    state, tx, chan, deadline, tokens >>
    /\ UNCHANGED << validVars, bridgeVars, mainVars, listenerVars, funVars >>

\* RefreshResponse with renew_token returning the error of the refresh (`?`)
RefreshResponsePropagates(t, o, io) ==
    /\ pc[t] = "rf_post"
    /\ IF o.kind # "ok"
       THEN /\ tokres' = [tokres EXCEPT ![t] = ErrToken(o.kind)]
            /\ pc' = [pc EXCEPT ![t] = RetPc(t)]
            /\ UNCHANGED << disk, tokens, h >>
       ELSE LET new_tokens == FromTokenResponse(o.response, now)
            IN  /\ disk' = SaveToDisk(new_tokens, disk, io)
                /\ IF io = "ok"
                   THEN /\ tokens' = [tokens EXCEPT ![t] = Some(new_tokens)]
                        /\ h' = [h EXCEPT ![t].saves[Phase(t)] = @ + 1]
                        /\ pc' = [pc EXCEPT ![t] = "rf_wlock"]
                        /\ UNCHANGED tokres
                   ELSE /\ tokres' = [tokres EXCEPT ![t] = ErrToken("Io")]
                        /\ pc' = [pc EXCEPT ![t] = RetPc(t)]
                        /\ UNCHANGED << tokens, h >>
    /\ UNCHANGED << token_info, rlock, wlock, auth_endpoint_parses, now,
                    port_owner, started, req, sent, first, result, ret,
                    state, tx, chan, deadline >>
    /\ UNCHANGED << validVars, bridgeVars, mainVars, listenerVars, funVars >>

\* lines 162-180: the token endpoint answers; parse, convert, save to disk
RefreshResponse(t, o, io) ==
    /\ pc[t] = "rf_post"
    /\ IF o.kind # "ok"
       THEN /\ pc' = [pc EXCEPT ![t] = "flow_start"]
            /\ UNCHANGED << disk, tokens, h >>
       ELSE LET new_tokens == FromTokenResponse(o.response, now)
            IN  /\ disk' = SaveToDisk(new_tokens, disk, io)
                /\ IF io = "ok"
                   THEN /\ tokens' = [tokens EXCEPT ![t] = Some(new_tokens)]
                        /\ h' = [h EXCEPT ![t].saves[Phase(t)] = @ + 1]
                        /\ pc' = [pc EXCEPT ![t] = "rf_wlock"]
                   ELSE /\ pc' = [pc EXCEPT ![t] = "flow_start"]
                        /\ UNCHANGED << tokens, h >>
    /\ UNCHANGED << token_info, rlock, wlock, auth_endpoint_parses, now,
                    port_owner, started, req, sent, first, result, ret, tokres,
                    state, tx, chan, deadline >>
    /\ UNCHANGED << validVars, bridgeVars, mainVars, listenerVars, funVars >>

\* line 183: self.token_info.write().await
RefreshWriteLock(t) ==
    /\ pc[t] = "rf_wlock"
    /\ CanWrite
    /\ wlock' = t
    /\ pc' = [pc EXCEPT ![t] = "rf_write"]
    /\ UNCHANGED << token_info, rlock, auth_endpoint_parses, disk, now,
                    port_owner, started, req, sent, first, result, ret, tokres,
                    state, tx, chan, deadline, tokens, h >>
    /\ UNCHANGED << validVars, bridgeVars, mainVars, listenerVars, funVars >>

\* RefreshWrite returning the access token without the assignment of
\* line 184
RefreshWriteSkipsCache(t) ==
    /\ pc[t] = "rf_write"
    /\ wlock' = NoTask
    /\ tokres' = [tokres EXCEPT ![t] = OkToken(Unwrap(tokens[t]).access_token)]
    /\ tokens' = [tokens EXCEPT ![t] = None]
    /\ h' = [h EXCEPT ![t].cache_writes[Phase(t)] = @ + 1]
    /\ pc' = [pc EXCEPT ![t] = RetPc(t)]
    /\ UNCHANGED << token_info, rlock, auth_endpoint_parses, disk, now,
                    port_owner, started, req, sent, first, result, ret, state,
                    tx, chan, deadline >>
    /\ UNCHANGED << validVars, bridgeVars, mainVars, listenerVars, funVars >>

\* RefreshWrite keeping the cached refresh token when the new bundle has
\* none
RefreshWriteKeepsRefreshToken(t) ==
    /\ pc[t] = "rf_write"
    /\ token_info' =
          IF IsSome(token_info) /\ IsNone(Unwrap(tokens[t]).refresh_token)
          THEN Some([Unwrap(tokens[t]) EXCEPT
                       !.refresh_token = Unwrap(token_info).refresh_token])
          ELSE tokens[t]
    /\ wlock' = NoTask
    /\ tokres' = [tokres EXCEPT ![t] = OkToken(Unwrap(tokens[t]).access_token)]
    /\ tokens' = [tokens EXCEPT ![t] = None]
    /\ h' = [h EXCEPT ![t].cache_writes[Phase(t)] = @ + 1]
    /\ pc' = [pc EXCEPT ![t] = RetPc(t)]
    /\ UNCHANGED << rlock, auth_endpoint_parses, disk, now, port_owner,
                    started, req, sent, first, result, ret, state, tx, chan,
                    deadline >>
    /\ UNCHANGED << validVars, bridgeVars, mainVars, listenerVars, funVars >>

\* lines 184-188: cache the tokens and return the access token
RefreshWrite(t) ==
    /\ pc[t] = "rf_write"
    /\ token_info' = tokens[t]
    /\ wlock' = NoTask
    /\ tokres' = [tokres EXCEPT ![t] = OkToken(Unwrap(tokens[t]).access_token)]
    /\ tokens' = [tokens EXCEPT ![t] = None]
    /\ h' = [h EXCEPT ![t].cache_writes[Phase(t)] = @ + 1]
    /\ pc' = [pc EXCEPT ![t] = RetPc(t)]
    /\ UNCHANGED << rlock, auth_endpoint_parses, disk, now, port_owner,
                    started, req, sent, first, result, ret, state, tx, chan,
                    deadline >>
    /\ UNCHANGED << validVars, bridgeVars, mainVars, listenerVars, funVars >>

(***************************************************************************)
(* OidcClient::perform_auth_flow (client.rs:87-134) with                   *)
(* callback::run_callback_server and handle_callback (callback.rs).        *)
(***************************************************************************)
\* generate_state (client.rs:246-255): 32 random alphanumerics; the flows
\* of different tasks get different values
GenerateState(t) == t

\* lines 88-103: generate the state, build the authorization URL, open the
\* browser (a failure to open it is only reported on stderr)
FlowStart(t, browser_opens) ==
    /\ pc[t] = "flow_start"
    /\ IF ~auth_endpoint_parses
       THEN \* build_authorization_url: Url::parse fails
            /\ tokres' = [tokres EXCEPT ![t] = ErrToken("UrlParse")]
            /\ h' = [h EXCEPT ![t].flows[Phase(t)] = @ + 1]
            /\ pc' = [pc EXCEPT ![t] = RetPc(t)]
            /\ UNCHANGED state
       ELSE /\ state' = [state EXCEPT ![t] = GenerateState(t)]
            /\ h' = [h EXCEPT ![t].flows[Phase(t)] = @ + 1,
                              ![t].browsers[Phase(t)] =
                                  IF browser_opens THEN @ + 1 ELSE @]
            /\ pc' = [pc EXCEPT ![t] = "flow_bind"]
            /\ UNCHANGED tokres
    /\ UNCHANGED << clientVars, started, req, sent, first, result, ret, tx,
                    chan, deadline, tokens >>
    /\ UNCHANGED << validVars, bridgeVars, mainVars, listenerVars, funVars >>

\* callback.rs:33-62: create the channel, bind 127.0.0.1:port, start the
\* 300 second timer; port_free is whether another process holds the port
FlowBind(t, port_free) ==
    /\ pc[t] = "flow_bind"
    /\ IF port_owner = NoTask /\ port_free
       THEN /\ port_owner' = t
            /\ tx' = [tx EXCEPT ![t] = TRUE]
            /\ chan' = [chan EXCEPT ![t] = None]
            /\ deadline' = [deadline EXCEPT ![t] = now + CALLBACK_TIMEOUT_SECS]
            /\ pc' = [pc EXCEPT ![t] = "flow_wait"]
            /\ UNCHANGED tokres
       ELSE \* TcpListener::bind fails: address in use
            /\ tokres' = [tokres EXCEPT ![t] = ErrToken("Io")]
            /\ pc' = [pc EXCEPT ![t] = RetPc(t)]
            /\ UNCHANGED << port_owner, tx, chan, deadline >>
    /\ UNCHANGED << token_info, rlock, wlock, auth_endpoint_parses, disk, now,
                    started, req, sent, first, result, ret, state, tokens, h >>
    /\ UNCHANGED << validVars, bridgeVars, mainVars, listenerVars, funVars >>

\* callback.rs:82-161: a GET reaches the listener; handle_callback sends
\* its result if the sender has not been taken yet
CallbackRequest(t, on_path, params) ==
    /\ pc[t] = "flow_wait"
    /\ port_owner = t
    /\ IF on_path /\ tx[t]
       THEN /\ tx' = [tx EXCEPT ![t] = FALSE]
            /\ chan' = [chan EXCEPT ![t] = Some(HandleCallbackResult(params))]
       ELSE UNCHANGED << tx, chan >>
    /\ UNCHANGED << clientVars, started, pc, req, sent, first, result, ret,
                    tokres, state, deadline, tokens >>
    /\ UNCHANGED << h, validVars, bridgeVars, mainVars, listenerVars, funVars >>

\* callback.rs:65-68: the select! takes the channel's value; the server is
\* dropped and run_callback_server returns the value
FlowCallbackReceived(t) ==
    /\ pc[t] = "flow_wait"
    /\ IsSome(chan[t])
    /\ port_owner' = NoTask
    /\ pc' = [pc EXCEPT ![t] = "flow_check"]
    /\ UNCHANGED << token_info, rlock, wlock, auth_endpoint_parses, disk, now,
                    started, req, sent, first, result, ret, tokres, state, tx,
                    chan, deadline, tokens, h >>
    /\ UNCHANGED << validVars, bridgeVars, mainVars, listenerVars, funVars >>

\* FlowCheckState without the comparison of lines 114-118
FlowCheckIgnoresState(t) ==
    /\ pc[t] = "flow_check"
    /\ chan' = [chan EXCEPT ![t] = None]
    /\ LET callback_result == Unwrap(chan[t])
       IN  IF ~callback_result.ok
           THEN /\ tokres' = [tokres EXCEPT ![t] = ErrToken(callback_result.err)]
                /\ pc' = [pc EXCEPT ![t] = RetPc(t)]
                /\ UNCHANGED h
           ELSE /\ h' = [h EXCEPT ![t].exchange_posts[Phase(t)] = @ + 1]
                /\ pc' = [pc EXCEPT ![t] = "ex_post"]
                /\ UNCHANGED tokres
    /\ UNCHANGED << clientVars, started, req, sent, first, result, ret, state,
                    tx, deadline, tokens >>
    /\ UNCHANGED << validVars, bridgeVars, mainVars, listenerVars, funVars >>

\* client.rs:111-121: an Err of run_callback_server is returned; the state
\* of the callback is compared with the state generated; the code exchange
\* is POSTed
FlowCheckState(t) ==
    /\ pc[t] = "flow_check"
    /\ chan' = [chan EXCEPT ![t] = None]
    /\ LET callback_result == Unwrap(chan[t])
       IN  IF ~callback_result.ok
           THEN /\ tokres' = [tokres EXCEPT ![t] = ErrToken(callback_result.err)]
                /\ pc' = [pc EXCEPT ![t] = RetPc(t)]
                /\ UNCHANGED h
           ELSE IF callback_result.state # state[t]
           THEN /\ tokres' = [tokres EXCEPT ![t] =
                        ErrToken("Auth: State mismatch - possible CSRF attack")]
                /\ pc' = [pc EXCEPT ![t] = RetPc(t)]
                /\ UNCHANGED h
           ELSE /\ h' = [h EXCEPT ![t].exchange_posts[Phase(t)] = @ + 1]
                /\ pc' = [pc EXCEPT ![t] = "ex_post"]
                /\ UNCHANGED tokres
    /\ UNCHANGED << clientVars, started, req, sent, first, result, ret, state,
                    tx, deadline, tokens >>
    /\ UNCHANGED << validVars, bridgeVars, mainVars, listenerVars, funVars >>

\* FlowTimeout with a listener that outlives the select!
FlowTimeoutKeepsSocket(t) ==
    /\ pc[t] = "flow_wait"
    /\ now >= deadline[t]
    /\ chan' = [chan EXCEPT ![t] = None]
    /\ tokres' = [tokres EXCEPT ![t] =
            ErrToken("Timeout: OAuth callback timed out after 300 seconds")]
    /\ pc' = [pc EXCEPT ![t] = RetPc(t)]
    /\ UNCHANGED << token_info, rlock, wlock, auth_endpoint_parses, disk, now,
                    port_owner, started, req, sent, first, result, ret, state,
                    tx, deadline, tokens, h >>
    /\ UNCHANGED << validVars, bridgeVars, mainVars, listenerVars, funVars >>

\* callback.rs:69-74: the select! takes the timer; the server, which owns
\* the TcpListener, is dropped with the select!
FlowTimeout(t) ==
    /\ pc[t] = "flow_wait"
    /\ now >= deadline[t]
    /\ port_owner' = NoTask
    /\ chan' = [chan EXCEPT ![t] = None]
    /\ tokres' = [tokres EXCEPT ![t] =
            ErrToken("Timeout: OAuth callback timed out after 300 seconds")]
    /\ pc' = [pc EXCEPT ![t] = RetPc(t)]
    /\ UNCHANGED << token_info, rlock, wlock, auth_endpoint_parses, disk, now,
                    started, req, sent, first, result, ret, state, tx,
                    deadline, tokens, h >>
    /\ UNCHANGED << validVars, bridgeVars, mainVars, listenerVars, funVars >>

\* callback.rs:75-78: the select! takes the server future, which has ended
FlowServerStopped(t) ==
    /\ pc[t] = "flow_wait"
    /\ port_owner' = NoTask
    /\ chan' = [chan EXCEPT ![t] = None]
    /\ tokres' = [tokres EXCEPT ![t] =
            ErrToken("Callback: Server stopped unexpectedly")]
    /\ pc' = [pc EXCEPT ![t] = RetPc(t)]
    /\ UNCHANGED << token_info, rlock, wlock, auth_endpoint_parses, disk, now,
                    started, req, sent, first, result, ret, state, tx,
                    deadline, tokens, h >>
    /\ UNCHANGED << validVars, bridgeVars, mainVars, listenerVars, funVars >>

\* ExchangeResponse caching the new bundle before it is saved, so that a
\* failed save returns its error with the cache already changed
ExchangeResponseCachesBeforeSave(t, o, io) ==
    /\ pc[t] = "ex_post"
    /\ IF o.kind # "ok"
       THEN /\ tokres' = [tokres EXCEPT ![t] = ErrToken(o.kind)]
            /\ pc' = [pc EXCEPT ![t] = RetPc(t)]
            /\ UNCHANGED << disk, tokens, h, token_info >>
       ELSE LET new_tokens == FromTokenResponse(o.response, now)
            IN  /\ disk' = SaveToDisk(new_tokens, disk, io)
                /\ token_info' = Some(new_tokens)
                /\ IF io = "ok"
                   THEN /\ tokens' = [tokens EXCEPT ![t] = Some(new_tokens)]
                        /\ h' = [h EXCEPT ![t].saves[Phase(t)] = @ + 1]
                        /\ pc' = [pc EXCEPT ![t] = "fl_wlock"]
                        /\ UNCHANGED tokres
                   ELSE /\ tokres' = [tokres EXCEPT ![t] = ErrToken("Io")]
                        /\ pc' = [pc EXCEPT ![t] = RetPc(t)]
                        /\ UNCHANGED << tokens, h >>
    /\ UNCHANGED << rlock, wlock, auth_endpoint_parses, now,
                    port_owner, started, req, sent, first, result, ret, state,
                    tx, chan, deadline >>
    /\ UNCHANGED << validVars, bridgeVars, mainVars, listenerVars, funVars >>

\* client.rs:192-226 and 121-125: the token endpoint answers the code
\* exchange; parse, convert, save to disk
ExchangeResponse(t, o, io) ==
    /\ pc[t] = "ex_post"
    /\ IF o.kind # "ok"
       THEN /\ tokres' = [tokres EXCEPT ![t] = ErrToken(o.kind)]
            /\ pc' = [pc EXCEPT ![t] = RetPc(t)]
            /\ UNCHANGED << disk, tokens, h >>
       ELSE LET new_tokens == FromTokenResponse(o.response, now)
            IN  /\ disk' = SaveToDisk(new_tokens, disk, io)
                /\ IF io = "ok"
                   THEN /\ tokens' = [tokens EXCEPT ![t] = Some(new_tokens)]
                        /\ h' = [h EXCEPT ![t].saves[Phase(t)] = @ + 1]
                        /\ pc' = [pc EXCEPT ![t] = "fl_wlock"]
                        /\ UNCHANGED tokres
                   ELSE /\ tokres' = [tokres EXCEPT ![t] = ErrToken("Io")]
                        /\ pc' = [pc EXCEPT ![t] = RetPc(t)]
                        /\ UNCHANGED << tokens, h >>
    /\ UNCHANGED << token_info, rlock, wlock, auth_endpoint_parses, now,
                    port_owner, started, req, sent, first, result, ret, state,
                    tx, chan, deadline >>
    /\ UNCHANGED << validVars, bridgeVars, mainVars, listenerVars, funVars >>

\* client.rs:128: self.token_info.write().await
FlowWriteLock(t) ==
    /\ pc[t] = "fl_wlock"
    /\ CanWrite
    /\ wlock' = t
    /\ pc' = [pc EXCEPT ![t] = "fl_write"]
    /\ UNCHANGED << token_info, rlock, auth_endpoint_parses, disk, now,
                    port_owner, started, req, sent, first, result, ret, tokres,
                    state, tx, chan, deadline, tokens, h >>
    /\ UNCHANGED << validVars, bridgeVars, mainVars, listenerVars, funVars >>

\* client.rs:129-133: cache the tokens and return the access token
FlowWrite(t) ==
    /\ pc[t] = "fl_write"
    /\ token_info' = tokens[t]
    /\ wlock' = NoTask
    /\ tokres' = [tokres EXCEPT ![t] = OkToken(Unwrap(tokens[t]).access_token)]
    /\ tokens' = [tokens EXCEPT ![t] = None]
    /\ h' = [h EXCEPT ![t].cache_writes[Phase(t)] = @ + 1]
    /\ pc' = [pc EXCEPT ![t] = RetPc(t)]
    /\ UNCHANGED << rlock, auth_endpoint_parses, disk, now, port_owner,
                    started, req, sent, first, result, ret, state, tx, chan,
                    deadline >>
    /\ UNCHANGED << validVars, bridgeVars, mainVars, listenerVars, funVars >>

\* one step of get_token, renew_token or what they call
ClientStep(t) ==
    \/ GetTokenLock(t)
    \/ GetTokenCheck(t)
    \/ RenewLock(t)
    \/ RenewCheck(t)
    \/ RefreshLock(t)
    \/ RefreshRead(t)
    \/ \E o \in TokenEndpointOutcomes, io \in SaveOutcomes :
          RefreshResponse(t, o, io)
    \/ RefreshWriteLock(t)
    \/ RefreshWrite(t)
    \/ \E b \in BOOLEAN : FlowStart(t, b)
    \/ \E f \in BOOLEAN : FlowBind(t, f)
    \/ \E p \in BOOLEAN, q \in CallbackQueries : CallbackRequest(t, p, q)
    \/ FlowCallbackReceived(t)
    \/ FlowCheckState(t)
    \/ FlowTimeout(t)
    \/ FlowServerStopped(t)
    \/ \E o \in TokenEndpointOutcomes, io \in SaveOutcomes :
          ExchangeResponse(t, o, io)
    \/ FlowWriteLock(t)
    \/ FlowWrite(t)

\* one step of the middleware
MiddlewareStep(t) ==
    \/ \E r \in Requests : Handle(t, r)
    \/ InjectAndSend(t)
    \/ \E r \in UpstreamResults(1) : FirstResponse(t, r)
    \/ RetryWithNewToken(t)
    \/ \E r \in UpstreamResults(2) : SecondResponse(t, r)
    \/ Finish(t)

Next ==
    \/ Tick
    \/ MiddlewareStep(BridgeTask)
    \/ ClientStep(BridgeTask)

\* the variables of SpecValid and SpecBridge while those are not running
ValidOff ==
    /\ v_token = FromJson(NullJson)
    /\ v_now = 0
    /\ v_valid = None
BridgeOff ==
    /\ b_pc = "off"
    /\ b_logging = FALSE
    /\ b_nread = 0
    /\ b_line = EmptyString
    /\ b_reply = None
    /\ b_stdout = << >>
    /\ b_log = << >>
    /\ b_result = None
    /\ b_accepted = << >>
    /\ b_forwarded = << >>
    /\ b_status = 0
MainOff ==
    /\ m_pc = "off"
    /\ m_exit = None
    /\ m_end = "running"
ListenerOff ==
    /\ l_pc = "off"
    /\ l_tx = FALSE
    /\ l_chan = None
    /\ l_bound = FALSE
    /\ l_now = 0
    /\ l_deadline = 0
    /\ l_served = 0
    /\ l_query = None
    /\ l_result = None

FunOff ==
    /\ f_op = "off"
    /\ f_in = << >>
    /\ f_out = << >>

Init == ClientInit /\ ValidOff /\ BridgeOff /\ MainOff /\ ListenerOff /\ FunOff

Spec == Init /\ [][Next]_vars

(***************************************************************************)
(* Tasks that share the OidcClient and call it themselves.                 *)
(***************************************************************************)
\* a task calls get_token (client.rs:50)
CallGetToken(t) ==
    /\ pc[t] = "idle"
    /\ started < MaxCalls
    /\ started' = started + 1
    /\ ret' = [ret EXCEPT ![t] = "caller"]
    /\ pc' = [pc EXCEPT ![t] = "gt_lock"]
    /\ UNCHANGED << clientVars, req, sent, first, result, tokres, state, tx,
                    chan, deadline, tokens, h >>
    /\ UNCHANGED << validVars, bridgeVars, mainVars, listenerVars, funVars >>

\* a task calls renew_token (client.rs:66)
CallRenewToken(t) ==
    /\ pc[t] = "idle"
    /\ started < MaxCalls
    /\ started' = started + 1
    /\ ret' = [ret EXCEPT ![t] = "caller"]
    /\ h' = [h EXCEPT ![t].renews[1] = @ + 1]
    /\ pc' = [pc EXCEPT ![t] = "rn_lock"]
    /\ UNCHANGED << clientVars, req, sent, first, result, tokres, state, tx,
                    chan, deadline, tokens >>
    /\ UNCHANGED << validVars, bridgeVars, mainVars, listenerVars, funVars >>

\* the caller has taken the result of its call
Return(t) ==
    /\ pc[t] = "returned"
    /\ pc' = [pc EXCEPT ![t] = "idle"]
    /\ ret' = [ret EXCEPT ![t] = "step1"]
    /\ tokres' = [tokres EXCEPT ![t] = NoTokenResult]
    /\ state' = [state EXCEPT ![t] = 0]
    /\ h' = [h EXCEPT ![t] = NoHistory]
    /\ UNCHANGED << clientVars, started, req, sent, first, result, tx, chan,
                    deadline, tokens >>
    /\ UNCHANGED << validVars, bridgeVars, mainVars, listenerVars, funVars >>

NextConc ==
    \/ Tick
    \/ \E t \in Tasks :
        \/ CallGetToken(t)
        \/ CallRenewToken(t)
        \/ Return(t)
        \/ ClientStep(t)

SpecConc == Init /\ [][NextConc]_vars

(***************************************************************************)
(* Claims about the middleware, checked under Spec.                        *)
(***************************************************************************)
\* the first response of the request a task is handling was a 401
FirstWasUnauthorized(t) ==
    IsSome(first[t]) /\ Unwrap(first[t]).status = 401
\* POSTs to the token endpoint since the first upstream attempt
TokenCallsBetween(t) == h[t].refresh_posts[2] + h[t].exchange_posts[2]
\* the bytes http::HeaderValue accepts
LegalHeaderBytes(token) ==
    \A i \in 1..Len(token) :
        (token[i] >= 32 /\ token[i] # 127) \/ token[i] = 9
\* nothing was done for the request after the first response
NothingAfterFirstResponse(t) ==
    /\ h[t].renews[2] = 0
    /\ h[t].refreshes[2] = 0
    /\ h[t].refresh_posts[2] = 0
    /\ h[t].flows[2] = 0
    /\ h[t].browsers[2] = 0
    /\ h[t].exchange_posts[2] = 0
    /\ h[t].saves[2] = 0
    /\ h[t].cache_writes[2] = 0

\* C1: whatever the backend answers and whatever the token state is, a
\* request handled by the middleware is forwarded upstream at most twice.
C1_AtMostTwoAttempts ==
    \A t \in Tasks : Len(sent[t]) <= 2

\* C1 witness: a request was forwarded twice and both answers were 401.
C1_Witness ==
    /\ pc[BridgeTask] = "done"
    /\ Len(sent[BridgeTask]) = 2
    /\ FirstWasUnauthorized(BridgeTask)
    /\ result[BridgeTask] = Some(OkResponse(Response(401, 2)))

\* C2 as stated: after a 401 on the first attempt and a renewal that
\* returned a token, the request was forwarded exactly once more with
\* that token, the second result is what handle returns, and with a
\* refreshable cached token the token endpoint was called exactly once
\* between the two attempts.
C2_Original ==
    \A t \in Tasks :
        (pc[t] = "done" /\ FirstWasUnauthorized(t) /\ tokres[t].ok) =>
            /\ h[t].renews[2] = 1
            /\ Len(sent[t]) = 2
            /\ sent[t][2] = [req[t] EXCEPT
                    !.authorization = Some(BearerPrefix \o tokres[t].token)]
            /\ \E n \in {2} : result[t] \in { Some(r) : r \in UpstreamResults(n) }
            /\ (h[t].refreshes[2] = 1 => TokenCallsBetween(t) = 1)

\* C2 as stated, for renewed tokens that are legal header values only:
\* what is left to refute is the number of token endpoint calls.
C2_OriginalTokenCalls ==
    \A t \in Tasks :
        (pc[t] = "done" /\ FirstWasUnauthorized(t) /\ Len(sent[t]) = 2
            /\ h[t].refreshes[2] = 1) =>
            TokenCallsBetween(t) = 1

\* C2 amended: after a 401 on the first attempt renew_token is called
\* once; if it returns a token that is a legal header value, the request
\* is forwarded exactly once more, unchanged but for Authorization:
\* Bearer <that token>, and the result of that second attempt (a
\* response, 401 included, or a transport error) is returned; with a
\* refreshable cached token the token endpoint is called once between the
\* two attempts when the refresh grant succeeds, and twice (the refresh
\* grant, then the code exchange of the full flow) when the refresh fails.
C2_RenewAndRetryOnce ==
    \A t \in Tasks :
        (pc[t] = "done" /\ FirstWasUnauthorized(t)) =>
            /\ h[t].renews[2] = 1
            /\ Len(sent[t]) \in {1, 2}
            /\ (tokres[t].ok /\ LegalHeaderBytes(tokres[t].token)) =>
                /\ Len(sent[t]) = 2
                /\ sent[t][2] = [req[t] EXCEPT
                        !.authorization = Some(BearerPrefix \o tokres[t].token)]
                /\ IsSome(result[t])
                /\ Unwrap(result[t]).ok => Unwrap(result[t]).resp.n = 2
                /\ ~Unwrap(result[t]).ok => Unwrap(result[t]).err = "Reqwest"
            /\ (Len(sent[t]) = 2 /\ h[t].refreshes[2] = 1) =>
                /\ h[t].refresh_posts[2] = 1
                /\ h[t].flows[2] = 0 => TokenCallsBetween(t) = 1
                /\ h[t].flows[2] = 1 => TokenCallsBetween(t) = 2

\* C2 witness: a 401, a failed refresh, a full flow, a retry that got 401
\* again, which is what handle returned.
C2_Witness ==
    /\ pc[BridgeTask] = "done"
    /\ FirstWasUnauthorized(BridgeTask)
    /\ Len(sent[BridgeTask]) = 2
    /\ h[BridgeTask].refreshes[2] = 1
    /\ h[BridgeTask].flows[2] = 1
    /\ TokenCallsBetween(BridgeTask) = 2
    /\ sent[BridgeTask][1] # sent[BridgeTask][2]
    /\ result[BridgeTask] = Some(OkResponse(Response(401, 2)))

\* C3: when the first response has a status other than 401 it is returned
\* unchanged: there is no retry, no call of renew_token, no token
\* endpoint call, and the cache and the cache file are not written.
C3_OtherStatusReturnedUnchanged ==
    \A t \in Tasks :
        (pc[t] = "done" /\ IsSome(first[t]) /\ Unwrap(first[t]).status # 401) =>
            /\ result[t] = Some(OkResponse(Unwrap(first[t])))
            /\ Unwrap(first[t]).n = 1
            /\ Len(sent[t]) = 1
            /\ NothingAfterFirstResponse(t)

\* C3 witness: the backend answered 500 and handle returned that response.
C3_Witness ==
    /\ pc[BridgeTask] = "done"
    /\ first[BridgeTask] = Some(Response(500, 1))
    /\ result[BridgeTask] = Some(OkResponse(Response(500, 1)))

\* C4: if renew_token fails after a 401 on the first attempt, handle
\* returns that error: not the 401 response, and without a second attempt.
C4_RenewalFailureIsReturned ==
    \A t \in Tasks :
        (pc[t] = "done" /\ FirstWasUnauthorized(t) /\ ~tokres[t].ok) =>
            /\ IsSome(result[t])
            /\ ~Unwrap(result[t]).ok
            /\ Unwrap(result[t]).err = tokres[t].err
            /\ Len(sent[t]) = 1

\* C4 witness: the renewal after a 401 failed on a state mismatch.
C4_Witness ==
    /\ pc[BridgeTask] = "done"
    /\ FirstWasUnauthorized(BridgeTask)
    /\ tokres[BridgeTask] = ErrToken("Auth: State mismatch - possible CSRF attack")
    /\ result[BridgeTask] =
          Some(ErrResponse("Auth: State mismatch - possible CSRF attack"))

(***************************************************************************)
(* Claims about OidcClient, checked under SpecConc.                        *)
(***************************************************************************)
\* the cached bundle is valid now, written out: a non-empty access token
\* and no expiry or more than 60 seconds to go
CachedBundleValidNow ==
    /\ token_info # << >>
    /\ token_info[1].access_token # << >>
    /\ \/ token_info[1].expires_at = << >>
       \/ now < token_info[1].expires_at[1] - 60
\* the in-memory cache, the cache file, the callback port and a task's
\* history of HTTP calls, flows and writes are as they were
NoClientEffect(t) ==
    /\ token_info' = token_info
    /\ disk' = disk
    /\ port_owner' = port_owner
    /\ h'[t] = h[t]
\* the places of refresh_access_token and of perform_auth_flow
RefreshPcs == { "rf_lock", "rf_read", "rf_post", "rf_wlock", "rf_write" }
FlowPcs == { "flow_start", "flow_bind", "flow_wait", "flow_check", "ex_post",
             "fl_wlock", "fl_write" }

\* C5: a get_token that finds a valid cached bundle returns that bundle's
\* access token; from its call to its return it sends no HTTP request,
\* starts no flow, writes no file and leaves the cached bundle as it is.
C5_ValidCacheNoIO ==
    [][\A t \in Tasks :
        /\ (pc[t] = "gt_lock" /\ pc'[t] # "gt_lock") =>
              (pc'[t] = "gt_read" /\ NoClientEffect(t))
        /\ (pc[t] = "gt_read" /\ pc'[t] # "gt_read" /\ CachedBundleValidNow) =>
              /\ tokres'[t] = OkToken(token_info[1].access_token)
              /\ pc'[t] = "returned"
              /\ h'[t] = NoHistory
              /\ NoClientEffect(t)]_vars

\* C5 witness: get_token has returned the cached token "A" having done
\* nothing else.
C5_Witness ==
    \E t \in Tasks :
        /\ pc[t] = "returned"
        /\ tokres[t] = OkToken(TokA)
        /\ h[t] = NoHistory
        /\ CachedBundleValidNow
        /\ token_info[1].access_token = TokA

\* C6: renew_token calls refresh_access_token exactly when the cached
\* bundle has a refresh token, and performs the full flow otherwise; a
\* refresh that succeeds returns its token with no flow started; a refresh
\* that fails, wherever it fails, leads to the full flow and never to a
\* return; an error is returned only out of the full flow.
C6_RefreshThenFlow ==
    [][\A t \in Tasks :
        /\ (pc[t] = "rn_read" /\ pc'[t] # "rn_read") =>
              /\ (token_info # << >> /\ token_info[1].refresh_token # << >>)
                    => (pc'[t] = "rf_lock" /\ h'[t].refreshes[1] = 1)
              /\ ~(token_info # << >> /\ token_info[1].refresh_token # << >>)
                    => (pc'[t] = "flow_start" /\ h'[t].refreshes[1] = 0)
        /\ (pc[t] \in RefreshPcs /\ pc'[t] # pc[t]) =>
              \/ pc'[t] \in RefreshPcs
              \/ pc'[t] = "flow_start" /\ h'[t].cache_writes[1] = 0
              \/ /\ pc[t] = "rf_write"
                 /\ pc'[t] = "returned"
                 /\ tokres'[t].ok
                 /\ h'[t].flows[1] = 0
                 /\ h'[t].browsers[1] = 0
        /\ (pc'[t] = "returned" /\ pc[t] # "returned" /\ ~tokres'[t].ok) =>
              (pc[t] \in FlowPcs /\ h'[t].flows[1] = 1)]_vars

\* C6 witness: the refresh grant was sent and failed, the full flow ran
\* and renew_token returned its token.
C6_Witness ==
    \E t \in Tasks :
        /\ pc[t] = "returned"
        /\ tokres[t].ok
        /\ h[t].refreshes[1] = 1
        /\ h[t].refresh_posts[1] = 1
        /\ h[t].flows[1] = 1
        /\ h[t].exchange_posts[1] = 1

\* C7: when the callback result the flow receives carries a state other
\* than the one generated for the flow, the flow returns Auth("State
\* mismatch - possible CSRF attack"): no code exchange is sent, the cache
\* file is not written, the cached bundle is unchanged.
C7_StateMismatchIsAuthError ==
    [][\A t \in Tasks :
        (/\ pc[t] = "flow_check" /\ pc'[t] # "flow_check"
         /\ chan[t][1].ok
         /\ chan[t][1].state # state[t]) =>
              /\ tokres'[t] = ErrToken("Auth: State mismatch - possible CSRF attack")
              /\ pc'[t] = "returned"
              /\ h'[t].exchange_posts[1] = 0
              /\ h'[t].saves[1] = 0
              /\ h'[t].cache_writes[1] = 0
              /\ NoClientEffect(t)]_vars

\* C7 witness: a flow has ended on a state mismatch.
C7_Witness ==
    \E t \in Tasks :
        /\ pc[t] = "returned"
        /\ tokres[t] = ErrToken("Auth: State mismatch - possible CSRF attack")
        /\ h[t].flows[1] = 1
        /\ h[t].exchange_posts[1] = 0

\* C8: at most one full auth flow (browser launched, callback listener
\* bound or about to be) is in progress at any time: a task that renews
\* while another task's flow is in progress starts no flow of its own.
C8_OneFlowAtATime ==
    Cardinality({ t \in Tasks : pc[t] \in FlowPcs \ {"flow_start"} }) <= 1

(***************************************************************************)
(* SpecValid: TokenInfo::is_valid (token.rs:68-84) on bundles and clock    *)
(* readings drawn from bounded sets.                                       *)
(***************************************************************************)
ValidBundles ==
    { [access_token |-> at, refresh_token |-> None, expires_in |-> None,
       token_type |-> None, scope |-> None, expires_at |-> e] :
        at \in { EmptyString, TokA },
        e \in { None } \cup { Some(x) : x \in 0..ValidMaxExpiresAt } }

\* the client and the tasks at rest
ClientQuiet ==
    /\ ClientInit
    /\ disk = NoFile
    /\ auth_endpoint_parses

InitValid ==
    /\ ClientQuiet
    /\ BridgeOff
    /\ MainOff
    /\ ListenerOff
    /\ FunOff
    /\ v_token \in ValidBundles
    /\ v_now \in 0..ValidMaxNow
    /\ v_valid = None

\* token.rs:68-84: is_valid is called
CheckValid ==
    /\ v_valid = None
    /\ v_valid' = Some(IsValid(v_token, v_now))
    /\ UNCHANGED << v_token, v_now, clientVars, taskVars, bridgeVars,
                    mainVars, listenerVars, funVars >>

\* token.rs:73-76: SystemTime::now() has moved on by the next call
ValidTick ==
    /\ v_now < ValidMaxNow
    /\ v_now' = v_now + 1
    /\ v_valid' = None
    /\ UNCHANGED << v_token, clientVars, taskVars, bridgeVars,
                    mainVars, listenerVars, funVars >>

NextValid == CheckValid \/ ValidTick

SpecValid == InitValid /\ [][NextValid]_vars

\* C9: is_valid returns true exactly when the access token is non-empty
\* and expires_at is unset or now < expires_at - 60 (in the integers, so
\* that an expires_at below 60 is valid at no time).
C9_IsValidCharacterisation ==
    v_valid # << >> =>
        (v_valid[1] <=>
            /\ v_token.access_token # << >>
            /\ \/ v_token.expires_at = << >>
               \/ v_now < v_token.expires_at[1] - 60)

\* C9 witness: is_valid has returned false for a bundle with a token and
\* an expires_at below 60, where the subtraction saturates.
C9_Witness ==
    /\ v_valid = << FALSE >>
    /\ v_token.access_token # << >>
    /\ v_token.expires_at = << 30 >>
    /\ v_now = 0

(***************************************************************************)
(* SpecBridge: run_proxy_server (server.rs:97-236), the loop between       *)
(* stdin/stdout and the authenticated HTTP client.  Lines and bodies are   *)
(* byte strings.                                                           *)
(***************************************************************************)
\* stdin lines as read_line returns them: "1\n", " 1\r\n", " \n", "{\n",
\* and a last line "2" that EOF ends
Lines ==
    { << 49, 10 >>, << 32, 49, 13, 10 >>, << 32, 10 >>, << 123, 10 >>, << 50 >> }

\* char::is_whitespace on the bytes of the model
IsWhitespace(b) == b \in { 9, 10, 11, 12, 13, 32 }

RECURSIVE TrimStart(_)
TrimStart(str) ==
    IF str # << >> /\ IsWhitespace(Head(str)) THEN TrimStart(Tail(str)) ELSE str

RECURSIVE TrimEnd(_)
TrimEnd(str) ==
    IF str # << >> /\ IsWhitespace(str[Len(str)])
    THEN TrimEnd(SubSeq(str, 1, Len(str) - 1))
    ELSE str

\* str::trim
Trim(str) == TrimEnd(TrimStart(str))

\* serde_json::from_str::<Value> succeeds; of the strings of the model the
\* JSON texts are the unsigned integers without a leading zero
IsJson(str) ==
    /\ str # << >>
    /\ \A i \in 1..Len(str) : str[i] \in 48..57
    /\ (Len(str) > 1 => str[1] # 48)

\* what goes to stdout and into the message log: a string as it is, or the
\* string of the JSON-RPC error object with this message (id null)
Text(str) == [kind |-> "text", text |-> str, code |-> 0, message |-> ""]
ErrorJson(message) ==
    [kind |-> "error_json", text |-> EmptyString, code |-> -32603,
     message |-> message]

\* response bodies: "3", the empty body, the two lines "3\n4", and "I",
\* a text that is not JSON (as in "Internal Server Error")
Bodies == { << 51 >>, EmptyString, << 51, 10, 52 >>, << 73 >> }

\* what http_client.post(..).send() and response.text() give
ForwardOutcomes ==
    { [kind |-> "body", status |-> st, body |-> b] :
        st \in { 200, 500 }, b \in Bodies }
    \cup { [kind |-> k, status |-> 0, body |-> EmptyString] :
        k \in { "send_error", "body_error" } }

\* Result<()> of run_proxy_server
BridgeOk == [ok |-> TRUE, err |-> ""]
BridgeErr(message) == [ok |-> FALSE, err |-> message]

\* operations on stdout
Write(data) == [op |-> "write_all", data |-> data]
Flush == [op |-> "flush", data |-> Text(EmptyString)]
StdoutOutcomes == { "ok", "write_fails", "newline_fails", "flush_fails" }

\* a record of the message log
LogRecord(direction, data) == [direction |-> direction, data |-> data]

InitBridge ==
    /\ ClientQuiet
    /\ ValidOff
    /\ MainOff
    /\ ListenerOff
    /\ FunOff
    /\ b_pc = "start"
    /\ b_logging = FALSE
    /\ b_nread = 0
    /\ b_line = EmptyString
    /\ b_reply = None
    /\ b_stdout = << >>
    /\ b_log = << >>
    /\ b_result = None
    /\ b_accepted = << >>
    /\ b_forwarded = << >>
    /\ b_status = 0

\* server.rs:22-38, 102: MessageLogger::new opens the log when
\* dump_messages is set
OpenLog(dump_messages, open_ok) ==
    /\ b_pc = "start"
    /\ IF dump_messages /\ ~open_ok
       THEN /\ b_pc' = "stopped"
            /\ b_result' = Some(BridgeErr("Failed to open message log file"))
            /\ UNCHANGED b_logging
       ELSE /\ b_pc' = "read"
            /\ b_logging' = dump_messages
            /\ UNCHANGED b_result
    /\ UNCHANGED << b_nread, b_line, b_reply, b_stdout, b_log, b_accepted,
                    b_forwarded, b_status, clientVars, taskVars, validVars,
                    mainVars, listenerVars, funVars >>

\* server.rs:122-139: read_line, EOF, trim, skip an empty line
ReadLine(input) ==
    /\ b_pc = "read"
    /\ CASE input.kind = "error" ->
              /\ b_pc' = "stopped"
              /\ b_result' = Some(BridgeErr("Failed to read from stdin"))
              /\ UNCHANGED << b_nread, b_line, b_accepted >>
         [] input.kind = "eof" ->
              /\ b_pc' = "stopped"
              /\ b_result' = Some(BridgeOk)
              /\ UNCHANGED << b_nread, b_line, b_accepted >>
         [] input.kind = "line" ->
              /\ b_nread < MaxLines
              /\ b_nread' = b_nread + 1
              /\ b_line' = Trim(input.line)
              /\ b_pc' = IF Trim(input.line) = EmptyString
                         THEN "read" ELSE "log_request"
              /\ b_accepted' = IF IsJson(Trim(input.line))
                               THEN Append(b_accepted, Trim(input.line))
                               ELSE b_accepted
              /\ UNCHANGED b_result
    /\ UNCHANGED << b_logging, b_reply, b_stdout, b_log, b_forwarded,
                    b_status, clientVars, taskVars, validVars,
                    mainVars, listenerVars, funVars >>

\* server.rs:40-74: log_client_request, log_backend_response and
\* log_client_response write one record and flush; without a log file
\* they do nothing.  io is what the file system does.
LogOutcomes == { "ok", "write_fails", "flush_fails" }
LogFails(io) == b_logging /\ io # "ok"
LogAfter(direction, data, io) ==
    IF b_logging /\ io # "write_fails"
    THEN Append(b_log, LogRecord(direction, data))
    ELSE b_log
LogError(io) ==
    IF io = "write_fails"
    THEN BridgeErr("Failed to write to message log")
    ELSE BridgeErr("Failed to flush message log")

\* server.rs:143-149: log the line, then validate it as JSON
LogRequest(io) ==
    /\ b_pc = "log_request"
    /\ b_log' = LogAfter("CLIENT -> PROXY", Text(b_line), io)
    /\ IF LogFails(io)
       THEN /\ b_pc' = "stopped"
            /\ b_result' = Some(LogError(io))
       ELSE /\ b_pc' = IF IsJson(b_line) THEN "send" ELSE "read"
            /\ UNCHANGED b_result
    /\ UNCHANGED << b_logging, b_nread, b_line, b_reply, b_stdout, b_accepted,
                    b_forwarded, b_status, clientVars, taskVars, validVars,
                    mainVars, listenerVars, funVars >>

\* server.rs:153-166, 183-194, 208-219: POST the line through the
\* middleware and read the body; a failure becomes a JSON-RPC error object.
\* The status (server.rs:162) is read for the debug log and never tested.
Forward(o) ==
    /\ b_pc = "send"
    /\ b_forwarded' = Append(b_forwarded, b_line)
    /\ b_status' = o.status
    /\ CASE o.kind = "body" ->
              /\ b_reply' = Some(Text(o.body))
              /\ b_pc' = "log_backend"
         [] o.kind = "body_error" ->
              /\ b_reply' = Some(ErrorJson("Backend error"))
              /\ b_pc' = "write"
         [] o.kind = "send_error" ->
              /\ b_reply' = Some(ErrorJson("Proxy error"))
              /\ b_pc' = "write"
    /\ UNCHANGED << b_logging, b_nread, b_line, b_stdout, b_log, b_result,
                    b_accepted, clientVars, taskVars, validVars,
                    mainVars, listenerVars, funVars >>

\* server.rs:170: log the body received
LogBackend(io) ==
    /\ b_pc = "log_backend"
    /\ b_log' = LogAfter("BACKEND -> PROXY", Unwrap(b_reply), io)
    /\ IF LogFails(io)
       THEN /\ b_pc' = "stopped"
            /\ b_result' = Some(LogError(io))
       ELSE /\ b_pc' = "write"
            /\ UNCHANGED b_result
    /\ UNCHANGED << b_logging, b_nread, b_line, b_reply, b_stdout, b_accepted,
                    b_forwarded, b_status, clientVars, taskVars, validVars,
                    mainVars, listenerVars, funVars >>

\* server.rs:173-178, 196-201, 221-226: write the reply, a newline, flush;
\* the message of a failed first write differs for an error object
WriteReply(io) ==
    /\ b_pc = "write"
    /\ CASE io = "ok" ->
              /\ b_stdout' = b_stdout \o
                    << Write(Unwrap(b_reply)), Write(Text(<< 10 >>)), Flush >>
              /\ b_pc' = "log_reply"
              /\ UNCHANGED b_result
         [] io = "write_fails" ->
              /\ b_pc' = "stopped"
              /\ b_result' = Some(BridgeErr(
                    IF Unwrap(b_reply).kind = "error_json"
                    THEN "Failed to write error to stdout"
                    ELSE "Failed to write to stdout"))
              /\ UNCHANGED b_stdout
         [] io = "newline_fails" ->
              /\ b_stdout' = Append(b_stdout, Write(Unwrap(b_reply)))
              /\ b_pc' = "stopped"
              /\ b_result' = Some(BridgeErr("Failed to write newline to stdout"))
         [] io = "flush_fails" ->
              /\ b_stdout' = b_stdout \o
                    << Write(Unwrap(b_reply)), Write(Text(<< 10 >>)) >>
              /\ b_pc' = "stopped"
              /\ b_result' = Some(BridgeErr("Failed to flush stdout"))
    /\ UNCHANGED << b_logging, b_nread, b_line, b_reply, b_log, b_accepted,
                    b_forwarded, b_status, clientVars, taskVars, validVars,
                    mainVars, listenerVars, funVars >>

\* server.rs:181, 204, 229: log what was written, go back to read_line
LogReply(io) ==
    /\ b_pc = "log_reply"
    /\ b_log' = LogAfter("PROXY -> CLIENT", Unwrap(b_reply), io)
    /\ IF LogFails(io)
       THEN /\ b_pc' = "stopped"
            /\ b_result' = Some(LogError(io))
            /\ UNCHANGED << b_reply, b_status >>
       ELSE /\ b_pc' = "read"
            /\ b_reply' = None
            /\ b_status' = 0
            /\ UNCHANGED b_result
    /\ UNCHANGED << b_logging, b_nread, b_line, b_stdout, b_accepted,
                    b_forwarded, clientVars, taskVars, validVars,
                    mainVars, listenerVars, funVars >>

\* what read_line may give
StdinInputs ==
    { [kind |-> "line", line |-> l] : l \in Lines }
    \cup { [kind |-> k, line |-> EmptyString] : k \in { "eof", "error" } }

NextBridge ==
    \/ \E dump_messages, open_ok \in BOOLEAN : OpenLog(dump_messages, open_ok)
    \/ \E input \in StdinInputs : ReadLine(input)
    \/ \E io \in LogOutcomes : LogRequest(io)
    \/ \E o \in ForwardOutcomes : Forward(o)
    \/ \E io \in LogOutcomes : LogBackend(io)
    \/ \E io \in StdoutOutcomes : WriteReply(io)
    \/ \E io \in LogOutcomes : LogReply(io)

SpecBridge == InitBridge /\ [][NextBridge]_vars

\* stdout or stdin has failed
StdioFailed ==
    /\ b_result # << >>
    /\ b_result[1].err \in
          { "Failed to read from stdin", "Failed to write to stdout",
            "Failed to write error to stdout",
            "Failed to write newline to stdout", "Failed to flush stdout" }

\* C10: whenever the loop is about to read the next line or has ended
\* (other than on a failure of stdin or stdout), every line read so far
\* that is non-empty JSON has got exactly one reply on stdout, in the
\* order of the lines: one write of a body or of a -32603 error object,
\* one newline, one flush.
C10_OneReplyPerJsonLine ==
    (b_pc \in { "read", "stopped" } /\ ~StdioFailed) =>
        /\ Len(b_stdout) = 3 * Len(b_accepted)
        /\ \A i \in 1..Len(b_accepted) :
              /\ b_stdout[3 * i - 2].op = "write_all"
              /\ \/ b_stdout[3 * i - 2].data.kind = "text"
                 \/ b_stdout[3 * i - 2].data.code = -32603
              /\ b_stdout[3 * i - 1] = [op |-> "write_all",
                    data |-> [kind |-> "text", text |-> << 10 >>, code |-> 0,
                              message |-> ""]]
              /\ b_stdout[3 * i].op = "flush"

\* stdout has failed
StdoutFailed ==
    /\ b_result # << >>
    /\ b_result[1].err \in
          { "Failed to write to stdout", "Failed to write error to stdout",
            "Failed to write newline to stdout", "Failed to flush stdout" }

\* C11: a line that is empty after trimming or is not JSON causes no HTTP
\* request (every line forwarded is JSON) and no write to stdout (stdout
\* holds at most the three operations of each forwarded line), and the loop
\* goes on: when the loop has ended with a non-empty line that is not JSON
\* as the last line read, it has ended on EOF or a read failure of stdin
\* after that line, never because of that line.
C11_SkippedLineKeepsLoopGoing ==
    /\ \A i \in 1..Len(b_forwarded) : IsJson(b_forwarded[i])
    /\ Len(b_stdout) <= 3 * Len(b_forwarded)
    /\ (b_pc = "stopped" /\ b_line # << >> /\ ~IsJson(b_line)) =>
            \/ b_result = << [ok |-> TRUE, err |-> ""] >>
            \/ b_result = << [ok |-> FALSE, err |-> "Failed to read from stdin"] >>

\* C12: when forwarding fails (send error, which includes the errors of the
\* middleware, or body-read error) the reply is a -32603 error object that
\* is written once with a newline and a flush, and the loop goes on: the
\* loop never ends with such a reply in hand unless stdout has failed.
C12_ForwardErrorIsAnsweredAndLoopGoesOn ==
    /\ (b_pc = "log_reply" /\ b_reply # << >> /\ b_reply[1].kind = "error_json") =>
            /\ Len(b_stdout) >= 3
            /\ b_stdout[Len(b_stdout) - 2] = [op |-> "write_all", data |-> b_reply[1]]
            /\ b_stdout[Len(b_stdout) - 2].data.code = -32603
            /\ b_stdout[Len(b_stdout) - 1].op = "write_all"
            /\ b_stdout[Len(b_stdout) - 1].data.text = << 10 >>
            /\ b_stdout[Len(b_stdout)].op = "flush"
    /\ (b_pc = "stopped" /\ b_reply # << >> /\ b_reply[1].kind = "error_json") =>
            StdoutFailed

\* C13: while the bridge holds the reply to a line that the backend answered
\* with HTTP 500, that reply is a JSON-RPC error object.
C13_Http500BecomesJsonRpcError ==
    (b_status = 500 /\ b_reply # << >>) => b_reply[1].kind = "error_json"

\* C14: the loop has ended only on EOF of stdin or on a failure of stdin or
\* stdout (a log file that cannot be opened ends run_proxy_server before
\* the loop starts); no failure of the message log ends it.
C14_LoopEndsOnlyOnStdioOrEof ==
    b_pc = "stopped" =>
        \/ b_result = << [ok |-> TRUE, err |-> ""] >>
        \/ StdioFailed
        \/ b_result = << [ok |-> FALSE, err |-> "Failed to open message log file"] >>

\* C15: every string written to stdout is the newline that ends a reply, a
\* -32603 error object, or a backend body that is one JSON value on one
\* line.
C15_StdoutCarriesOneJsonValuePerLine ==
    \A i \in 1..Len(b_stdout) :
        b_stdout[i].op = "write_all" =>
            \/ b_stdout[i].data.kind = "error_json"
            \/ b_stdout[i].data.text = << 10 >>
            \/ /\ b_stdout[i].data.kind = "text"
               /\ IsJson(b_stdout[i].data.text)
               /\ \A j \in 1..Len(b_stdout[i].data.text) :
                     b_stdout[i].data.text[j] # 10

(***************************************************************************)
(* SpecCallback: one run of run_callback_server (callback.rs:33-80) with   *)
(* the requests that reach handle_callback (callback.rs:82-161), on a      *)
(* clock.  The connection tasks of the server outlive the select!, so a    *)
(* request accepted before the return may be handled after it.             *)
(***************************************************************************)
\* requests handled in one run
MaxCallbacks == 2
\* seconds per step of the clock
CallbackTickSecs == 100
\* how long after the deadline the clock is followed
MaxOvertime == 100

\* a GET that reaches the router
CallbackGet(on_path, params) == [on_path |-> on_path, params |-> params]

\* what the failures of the listener give
BindError == ErrCallback("Io: bind")
ServeError == ErrCallback("Io: serve")
ServerStopped == ErrCallback("Callback: Server stopped unexpectedly")
TimedOut == ErrCallback("Timeout: OAuth callback timed out after 300 seconds")

InitCallback ==
    /\ ClientQuiet
    /\ ValidOff
    /\ BridgeOff
    /\ MainOff
    /\ FunOff
    /\ l_pc = "start"
    /\ l_tx = FALSE
    /\ l_chan = None
    /\ l_bound = FALSE
    /\ l_now = 0
    /\ l_deadline = 0
    /\ l_served = 0
    /\ l_query = None
    /\ l_result = None

\* callback.rs:34-62 and the timer of line 69: the channel, the router, the
\* bind; a failed bind returns the Io error through the `?`
ListenerStart(port_free) ==
    /\ l_pc = "start"
    /\ IF port_free
       THEN /\ l_bound' = TRUE
            /\ l_tx' = TRUE
            /\ l_deadline' = l_now + CALLBACK_TIMEOUT_SECS
            /\ l_pc' = "waiting"
            /\ UNCHANGED l_result
       ELSE /\ l_result' = Some(BindError)
            /\ l_pc' = "returned"
            /\ UNCHANGED << l_bound, l_tx, l_deadline >>
    /\ UNCHANGED << l_chan, l_now, l_served, l_query, clientVars, taskVars,
                    validVars, bridgeVars, mainVars, funVars >>

\* ListenerRequest that sends whether or not the sender was taken
ListenerRequestSendsAgain(on_path, params) ==
    /\ l_pc \in { "waiting", "returned" }
    /\ l_result # Some(BindError)
    /\ l_served < MaxCallbacks
    /\ l_served' = l_served + 1
    /\ l_query' = Some(CallbackGet(on_path, params))
    /\ IF on_path
       THEN /\ l_tx' = FALSE
            /\ l_chan' = IF l_pc = "waiting"
                         THEN Some(HandleCallbackResult(params))
                         ELSE l_chan
       ELSE UNCHANGED << l_tx, l_chan >>
    /\ UNCHANGED << l_pc, l_bound, l_now, l_deadline, l_result, clientVars,
                    taskVars, validVars, bridgeVars, mainVars, funVars >>

\* callback.rs:42-49, 82-161: a GET is handled.  On the callback path
\* handle_callback takes the sender out of the mutex, if it is still there,
\* and sends; the send fails, and the failure is ignored, when
\* run_callback_server has returned and dropped the receiver.  Any other
\* path is not routed to handle_callback.
ListenerRequest(on_path, params) ==
    /\ l_pc \in { "waiting", "returned" }
    /\ l_result # Some(BindError)
    /\ l_served < MaxCallbacks
    /\ l_served' = l_served + 1
    /\ l_query' = Some(CallbackGet(on_path, params))
    /\ IF on_path /\ l_tx
       THEN /\ l_tx' = FALSE
            /\ l_chan' = IF l_pc = "waiting"
                         THEN Some(HandleCallbackResult(params))
                         ELSE l_chan
       ELSE UNCHANGED << l_tx, l_chan >>
    /\ UNCHANGED << l_pc, l_bound, l_now, l_deadline, l_result, clientVars,
                    taskVars, validVars, bridgeVars, mainVars, funVars >>

\* callback.rs:66-68: the select! takes the receiver, which holds a value
ListenerReceive ==
    /\ l_pc = "waiting"
    /\ IsSome(l_chan)
    /\ l_result' = l_chan
    /\ l_pc' = "returned"
    /\ l_bound' = FALSE
    /\ UNCHANGED << l_tx, l_chan, l_now, l_deadline, l_served, l_query,
                    clientVars, taskVars, validVars, bridgeVars, mainVars, funVars >>

\* ListenerTimeout with a timer that may fire at any time
ListenerTimeoutTooEarly ==
    /\ l_pc = "waiting"
    /\ l_result' = Some(TimedOut)
    /\ l_pc' = "returned"
    /\ l_bound' = FALSE
    /\ UNCHANGED << l_tx, l_chan, l_now, l_deadline, l_served, l_query,
                    clientVars, taskVars, validVars, bridgeVars, mainVars, funVars >>

\* callback.rs:69-74: the select! takes the timer, which has elapsed
ListenerTimeout ==
    /\ l_pc = "waiting"
    /\ l_now >= l_deadline
    /\ l_result' = Some(TimedOut)
    /\ l_pc' = "returned"
    /\ l_bound' = FALSE
    /\ UNCHANGED << l_tx, l_chan, l_now, l_deadline, l_served, l_query,
                    clientVars, taskVars, validVars, bridgeVars, mainVars, funVars >>

\* callback.rs:75-78: the select! takes the server future, which has ended
\* with Ok or with an Io error
ListenerServerStopped(server_result_ok) ==
    /\ l_pc = "waiting"
    /\ l_result' = Some(IF server_result_ok THEN ServerStopped ELSE ServeError)
    /\ l_pc' = "returned"
    /\ l_bound' = FALSE
    /\ UNCHANGED << l_tx, l_chan, l_now, l_deadline, l_served, l_query,
                    clientVars, taskVars, validVars, bridgeVars, mainVars, funVars >>

\* time passes while run_callback_server waits
ListenerTick ==
    /\ l_pc = "waiting"
    /\ l_now < l_deadline + MaxOvertime
    /\ l_now' = l_now + CallbackTickSecs
    /\ UNCHANGED << l_pc, l_tx, l_chan, l_bound, l_deadline, l_served, l_query,
                    l_result, clientVars, taskVars, validVars, bridgeVars,
                    mainVars, funVars >>

NextCallback ==
    \/ \E port_free \in BOOLEAN : ListenerStart(port_free)
    \/ \E on_path \in BOOLEAN, params \in AllCallbackQueries :
          ListenerRequest(on_path, params)
    \/ ListenerReceive
    \/ ListenerTimeout
    \/ \E server_result_ok \in BOOLEAN : ListenerServerStopped(server_result_ok)
    \/ ListenerTick

\* the tokio timer elapses and the runtime polls the select! it has woken
SpecCallback ==
    /\ InitCallback
    /\ [][NextCallback]_vars
    /\ WF_vars(ListenerTick)
    /\ WF_vars(ListenerTimeout)

\* C17: in one run of the listener, whatever requests are handled, the
\* channel gets at most one value: a value is put into it only by a step
\* that takes the sender, the sender once taken is never back, a value in
\* the channel never changes, and what run_callback_server has returned
\* never changes (later requests are answered and change nothing).
C17_AtMostOneResultDelivered ==
    [][ /\ (l_chan # << >> => l_chan' = l_chan)
        /\ (l_chan' # l_chan => l_tx /\ ~l_tx')
        /\ (~l_tx /\ l_pc # "start" => ~l_tx')
        /\ (l_pc = "returned" => l_pc' = "returned" /\ l_result' = l_result)
      ]_vars

\* C17 witness: two requests on the callback path have been handled, the
\* second with a query that gives another result than the one delivered.
C17_Witness ==
    /\ l_served = 2
    /\ l_chan # << >>
    /\ l_query # << >>
    /\ l_query[1].on_path
    /\ l_chan[1].ok
    /\ l_query[1].params.error # << >>
    /\ l_result = l_chan

\* the result the specification's table gives for a query
C18_Delivers(q, r) ==
    IF q.error # << >>
    THEN /\ ~r.ok
         /\ r.err = "Callback: OAuth error"
         /\ r.error = q.error
         /\ (q.error_description # << >> => r.description = q.error_description)
    ELSE IF q.code # << >> /\ q.state # << >>
         THEN /\ r.ok
              /\ r.code = q.code[1]
              /\ r.state = q.state[1]
         ELSE /\ ~r.ok
              /\ r.err = "Callback: Missing code or state parameter in callback"

\* C18: a value enters the channel only in the handling of a request on
\* the callback path, and it is the value the query determines (error
\* first, then code and state, else the missing-parameter error); a
\* request on the callback path that finds the sender while the listener
\* waits delivers; a request on another path delivers nothing and leaves
\* the sender.
C18_ResultDeterminedByQuery ==
    [][ /\ (l_chan' # l_chan =>
               /\ l_served' = l_served + 1
               /\ l_query'[1].on_path
               /\ l_chan' # << >>
               /\ C18_Delivers(l_query'[1].params, l_chan'[1]))
        /\ (l_served' = l_served + 1 /\ l_query'[1].on_path /\ l_tx
               /\ l_pc = "waiting" => l_chan' # l_chan)
        /\ (l_served' = l_served + 1 /\ ~l_query'[1].on_path =>
               l_chan' = l_chan /\ l_tx' = l_tx)
      ]_vars

\* C18 witness: a query with error, code and state has delivered the OAuth
\* error, and the listener has returned it.
C18_Witness ==
    /\ l_served = 1
    /\ l_query # << >>
    /\ l_query[1].on_path
    /\ l_query[1].params.error # << >>
    /\ l_query[1].params.code # << >>
    /\ l_query[1].params.state # << >>
    /\ l_result # << >>
    /\ l_result[1].err = "Callback: OAuth error"
    /\ l_result[1].error = << 1 >>

\* C19 as stated: when run_callback_server has returned after the listener
\* started and no request on the callback path has taken the sender, the
\* result is the Timeout error.
C19_Original ==
    (l_pc = "returned" /\ l_tx /\ l_result # << BindError >>) =>
        l_result = << TimedOut >>

\* C19: when run_callback_server has returned with no request on the
\* callback path handled before, the result is the Timeout error, or the
\* error of a server that ended first; the Timeout error is returned only
\* when 300 seconds have passed since the listener started; a result
\* returned never changes afterwards (no success after the timeout); and
\* the wait always ends.
C19_TimeoutEndsTheWait ==
    /\ [](  (l_pc = "returned" /\ l_tx /\ l_result # << BindError >>) =>
                l_result \in { << TimedOut >>, << ServerStopped >>, << ServeError >> })
    /\ []( l_result = << TimedOut >> => l_now >= l_deadline /\ l_deadline = 300 )
    /\ [][ l_pc = "returned" => l_result' = l_result ]_vars
    /\ (l_pc = "waiting" ~> l_pc = "returned")

\* C19 witness: the listener has waited 300 seconds, no request was handled,
\* and the Timeout error has been returned.
C19_Witness ==
    /\ l_pc = "returned"
    /\ l_served = 0
    /\ l_tx
    /\ l_now >= 300
    /\ l_result = << TimedOut >>

\* C20: a task holds the loopback socket only while it waits in the
\* select! of run_callback_server: on each way the wait ends (value
\* received, timer, server stopped) and after a failed bind the socket is
\* not bound by the task, so it is not when renew_token or get_token
\* returns.
C20_SocketReleasedOnReturn ==
    \A t \in Tasks : port_owner = t => pc[t] = "flow_wait"

\* C20 witness: within one request a full flow ran under get_token and has
\* ended, and a second full flow, under renew_token, has bound the port
\* again.
C20_Witness ==
    /\ h[BridgeTask].flows[1] = 1
    /\ h[BridgeTask].flows[2] = 1
    /\ pc[BridgeTask] = "flow_wait"
    /\ port_owner = BridgeTask

(***************************************************************************)
(* SpecMain: main and run_proxy (main.rs:85-175) around the bridge task:   *)
(* the exit code of the process.                                           *)
(***************************************************************************)
\* what OidcClient::new gives (client.rs:25-47)
NewClientOutcomes == { "ok", "discovery", "cache" }

InitMain ==
    /\ ClientQuiet
    /\ ValidOff
    /\ BridgeOff
    /\ ListenerOff
    /\ FunOff
    /\ m_pc = "start"
    /\ m_exit = None
    /\ m_end = "running"

\* main.rs:89, 53-60: setup_logging; with log_to_file a log file that
\* cannot be created panics (expect), and a panic of main exits with 101
MainSetupLogging(log_file_ok) ==
    /\ m_pc = "start"
    /\ IF log_file_ok
       THEN /\ m_pc' = "validate"
            /\ UNCHANGED << m_exit, m_end >>
       ELSE /\ m_pc' = "exited"
            /\ m_exit' = Some(101)
            /\ m_end' = "panic"
    /\ UNCHANGED << clientVars, taskVars, validVars, bridgeVars, listenerVars, funVars >>

\* main.rs:92-99: config.validate(); on Err, exit(1)
MainValidate(valid) ==
    /\ m_pc = "validate"
    /\ IF valid
       THEN /\ m_pc' = "init"
            /\ UNCHANGED << m_exit, m_end >>
       ELSE /\ m_pc' = "exited"
            /\ m_exit' = Some(1)
            /\ m_end' = "config"
    /\ UNCHANGED << clientVars, taskVars, validVars, bridgeVars, listenerVars, funVars >>

\* main.rs:137-144, 123-130: OidcClient::new; an Err of discovery or of
\* load_from_disk leaves run_proxy through the `?`, and main exits with 1
MainNewClient(o) ==
    /\ m_pc = "init"
    /\ IF o = "ok"
       THEN /\ m_pc' = "spawn"
            /\ UNCHANGED << m_exit, m_end >>
       ELSE /\ m_pc' = "exited"
            /\ m_exit' = Some(1)
            /\ m_end' = o
    /\ UNCHANGED << clientVars, taskVars, validVars, bridgeVars, listenerVars, funVars >>

\* main.rs:149-152: tokio::spawn of run_proxy_server
MainSpawn ==
    /\ m_pc = "spawn"
    /\ m_pc' = "select"
    /\ b_pc' = "start"
    /\ UNCHANGED << m_exit, m_end, b_logging, b_nread, b_line, b_reply,
                    b_stdout, b_log, b_result, b_accepted, b_forwarded,
                    b_status, clientVars, taskVars, validVars, listenerVars, funVars >>

\* the bridge task runs while main waits in the select!
MainBridgeStep ==
    /\ m_pc = "select"
    /\ NextBridge

\* token.rs:48-50, 75-77: an unwrap in the code that the POST runs (the
\* system clock is before the epoch) panics the bridge task
BridgePanics ==
    /\ m_pc = "select"
    /\ b_pc = "send"
    /\ b_pc' = "panicked"
    /\ UNCHANGED << b_logging, b_nread, b_line, b_reply, b_stdout, b_log,
                    b_result, b_accepted, b_forwarded, b_status, clientVars,
                    taskVars, validVars, mainVars, listenerVars, funVars >>

\* main.rs:156-158, 174: the select! takes ctrl_c; run_proxy returns Ok
\* and main returns
MainCtrlC ==
    /\ m_pc = "select"
    /\ m_pc' = "exited"
    /\ m_exit' = Some(0)
    /\ m_end' = "ctrl_c"
    /\ UNCHANGED << clientVars, taskVars, validVars, bridgeVars, listenerVars, funVars >>

\* MainProxyDone with `return Err(..)` left out of both error arms
MainProxyDoneSwallowsError ==
    /\ m_pc = "select"
    /\ b_pc \in { "stopped", "panicked" }
    /\ m_pc' = "exited"
    /\ m_exit' = Some(0)
    /\ m_end' = IF b_pc = "panicked" THEN "proxy_panic"
                ELSE IF Unwrap(b_result).ok THEN "proxy_ok" ELSE "proxy_err"
    /\ UNCHANGED << clientVars, taskVars, validVars, bridgeVars, listenerVars, funVars >>

\* main.rs:159-171, 123-130: the select! takes the JoinHandle of the
\* bridge task, which has ended
MainProxyDone ==
    /\ m_pc = "select"
    /\ b_pc \in { "stopped", "panicked" }
    /\ m_pc' = "exited"
    /\ IF b_pc = "panicked"
       THEN /\ m_exit' = Some(1)
            /\ m_end' = "proxy_panic"
       ELSE IF Unwrap(b_result).ok
       THEN /\ m_exit' = Some(0)
            /\ m_end' = "proxy_ok"
       ELSE /\ m_exit' = Some(1)
            /\ m_end' = "proxy_err"
    /\ UNCHANGED << clientVars, taskVars, validVars, bridgeVars, listenerVars, funVars >>

NextMain ==
    \/ \E log_file_ok \in BOOLEAN : MainSetupLogging(log_file_ok)
    \/ \E valid \in BOOLEAN : MainValidate(valid)
    \/ \E o \in NewClientOutcomes : MainNewClient(o)
    \/ MainSpawn
    \/ MainBridgeStep
    \/ BridgePanics
    \/ MainCtrlC
    \/ MainProxyDone

SpecMain == InitMain /\ [][NextMain]_vars

\* C16: when the process has exited, the exit code is 0 exactly when the
\* run ended by the Ctrl+C branch or by the end of a bridge loop that
\* returned Ok, which it does on EOF of stdin only; after a failed
\* validation, a failed discovery (or an unreadable token cache) at
\* startup, or an Err or a panic of the bridge task that main has
\* received, the exit code is not 0.
C16_ExitCodes ==
    m_pc = "exited" =>
        /\ m_exit # << >>
        /\ (m_exit = << 0 >> <=>
                \/ m_end = "ctrl_c"
                \/ /\ m_end = "proxy_ok"
                   /\ b_pc = "stopped"
                   /\ b_result = << [ok |-> TRUE, err |-> ""] >>)
        /\ (m_end \in { "config", "discovery", "cache" } =>
                m_exit # << 0 >> /\ b_pc = "off")
        /\ (m_end # "ctrl_c" /\ b_pc = "stopped" /\ b_result # << >>
                /\ ~b_result[1].ok => m_exit # << 0 >>)
        /\ (m_end # "ctrl_c" /\ b_pc = "panicked" => m_exit # << 0 >>)

\* C16 witness: a line was answered, EOF ended the loop with Ok, and the
\* process has exited with 0.
C16_Witness ==
    /\ m_pc = "exited"
    /\ m_exit = << 0 >>
    /\ m_end = "proxy_ok"
    /\ b_result = << [ok |-> TRUE, err |-> ""] >>
    /\ Len(b_stdout) = 3

\* the clock readings of a run
ClockReadings == { k * TickSecs : k \in 0..(MaxNow \div TickSecs) }

\* the bundles that From<TokenResponse> gives for the answers of the token
\* endpoint
ParsedBundles ==
    { FromTokenResponse(r, n) : r \in TokenResponses, n \in ClockReadings }

\* C21: the cached bundle changes only in the final assignment of a
\* renewal (refresh grant or code exchange), under the write lock, to a
\* bundle parsed from a token-endpoint response; get_token that reads an
\* empty or invalid cache calls renew_token; and when renew_token (or
\* get_token) has returned Ok(t) to the middleware, no other renewal
\* running, the cache holds a bundle whose access_token is t.
C21_CacheTransitions ==
    /\ [][ token_info' # token_info =>
              \E t \in Tasks :
                  /\ pc[t] \in { "rf_write", "fl_write" }
                  /\ wlock = t
                  /\ token_info' # << >>
                  /\ token_info'[1] \in ParsedBundles
                  /\ pc'[t] \in { "mw_step1", "mw_step3" }
                  /\ tokres'[t].ok
                  /\ tokres'[t].token = token_info'[1].access_token ]_vars
    /\ [][ \A t \in Tasks :
              (/\ pc[t] = "gt_read"
               /\ pc'[t] # "gt_read"
               /\ ~(token_info # << >> /\ IsValid(token_info[1], now)))
              => pc'[t] = "rn_lock" /\ h'[t].renews[1] = h[t].renews[1] + 1 ]_vars
    /\ [](\A t \in Tasks :
              (pc[t] \in { "mw_step1", "mw_step3" } /\ tokres[t].ok) =>
                  /\ token_info # << >>
                  /\ token_info[1].access_token = tokres[t].token)

\* C21 witness: renew_token, called after a 401, has returned Ok(t) from
\* a refresh grant and the cache, which held another token, holds t.
C21_Witness ==
    /\ pc[BridgeTask] = "mw_step3"
    /\ tokres[BridgeTask].ok
    /\ h[BridgeTask].cache_writes[2] = 1
    /\ h[BridgeTask].refresh_posts[2] = 1
    /\ h[BridgeTask].flows[2] = 0
    /\ token_info # << >>
    /\ token_info[1].access_token = tokres[BridgeTask].token
    /\ sent[BridgeTask][1].authorization[1] #
          BearerPrefix \o token_info[1].access_token

(***************************************************************************)
(* SpecFun: the functions of the program that depend on their arguments    *)
(* (and the clock, and the file system) alone, each applied to arguments   *)
(* drawn from a bounded set.                                               *)
(***************************************************************************)
\* how long after the save the file is loaded, at most
MaxAge == 5000

\* the bundles a run may save: From<TokenResponse> at clock reading t of
\* answers with every presence of the optional fields and with expires_in
\* below, at and above the 60-second buffer
SavedBundles(t) ==
    { FromTokenResponse(
          [access_token |-> at, refresh_token |-> rt, expires_in |-> ei,
           token_type |-> tt, scope |-> sc], t) :
        at \in { TokA, EmptyString }, rt \in { None, Some(RefreshR) },
        ei \in { None, Some(30), Some(60), Some(61), Some(3600) },
        tt \in { None, Some(<< 66 >>) }, sc \in { None, Some(<< 83 >>) } }

\* "openid", "profile", "email" and the separators
Openid == << 111, 112, 101, 110, 105, 100 >>
Profile == << 112, 114, 111, 102, 105, 108, 101 >>
Email == << 101, 109, 97, 105, 108 >>
Space == << 32 >>
\* DEFAULT_SCOPES, "openid profile email"
DEFAULT_SCOPES == Openid \o Space \o Profile \o Space \o Email

\* words in a scopes string, at most
MaxScopes == 3

\* str::split_whitespace: the maximal runs of bytes that are not whitespace
RECURSIVE SplitWhitespace(_, _)
SplitWhitespace(str, word) ==
    IF str = << >>
    THEN IF word = << >> THEN << >> ELSE << word >>
    ELSE IF IsWhitespace(Head(str))
         THEN IF word = << >>
              THEN SplitWhitespace(Tail(str), << >>)
              ELSE << word >> \o SplitWhitespace(Tail(str), << >>)
         ELSE SplitWhitespace(Tail(str), Append(word, Head(str)))

\* Config::scopes (config.rs:98-109) for oidc_scopes = scopes_opt
Scopes(scopes_opt) ==
    LET scopes_str == IF IsSome(scopes_opt) THEN Unwrap(scopes_opt)
                      ELSE DEFAULT_SCOPES
        scopes == SplitWhitespace(scopes_str, << >>)
    IN  IF \E i \in 1..Len(scopes) : scopes[i] = Openid
        THEN scopes
        ELSE << Openid >> \o scopes

\* the words of a string of scopes joined by sep, with sep in front
RECURSIVE Join(_, _)
Join(words, sep) ==
    IF words = << >> THEN << >> ELSE sep \o Head(words) \o Join(Tail(words), sep)

\* values of OIDC_SCOPES: unset, or up to MaxScopes of the three words
\* separated by one space or by a tab and a space
ScopeStrings ==
    { None } \cup
    { Some(Join(ws, sep)) :
        ws \in UNION { [1..n -> { Openid, Profile, Email }] : n \in 0..MaxScopes },
        sep \in { Space, << 9, 32 >> } }

\* str::starts_with
StartsWith(str, pat) ==
    Len(str) >= Len(pat) /\ SubSeq(str, 1, Len(pat)) = pat

\* str::trim_start_matches: removes the prefix as often as it matches
RECURSIVE TrimStartMatches(_, _)
TrimStartMatches(str, pat) ==
    IF StartsWith(str, pat)
    THEN TrimStartMatches(SubSeq(str, Len(pat) + 1, Len(str)), pat)
    ELSE str

\* str::replace of one byte by another
Replace(str, from, to) ==
    [i \in 1..Len(str) |-> IF str[i] = from THEN to ELSE str[i]]

\* "https://" and "http://"
HttpsPrefix == << 104, 116, 116, 112, 115, 58, 47, 47 >>
HttpPrefix == << 104, 116, 116, 112, 58, 47, 47 >>

\* TokenInfo::sanitize_issuer (token.rs:115-121)
SanitizeIssuer(issuer_url) ==
    Replace(Replace(TrimStartMatches(TrimStartMatches(issuer_url, HttpsPrefix),
                                     HttpPrefix), 47, 95), 58, 95)

\* schemes in front of an issuer, at most
MaxPrefixes == 2

\* issuer URLs: up to MaxPrefixes of "http://" and "https://", then "a",
\* "a:8/r" or "a/"
IssuerUrls ==
    { Join(ps, << >>) \o rest :
        ps \in UNION { [1..n -> { HttpsPrefix, HttpPrefix }] : n \in 0..MaxPrefixes },
        rest \in { << 97 >>, << 97, 58, 56, 47, 114 >>, << 97, 47 >> } }

\* values of an endpoint field of the discovery document: the field is
\* missing, "", "/authorize", "https://p/a"
Endpoints ==
    { None, Some(EmptyString), Some(<< 47, 97 >>),
      Some(HttpsPrefix \o << 112, 47, 97 >>) }

\* what the GET of <issuer>/.well-known/openid-configuration gives: sent is
\* FALSE when send() fails (connection, 5 s timeout); json is whether the
\* body is JSON; the three required fields of the document
DiscoveryResponses ==
    [sent : BOOLEAN, status : { 200, 404, 500 }, json : BOOLEAN,
     issuer : { None, Some(<< 97 >>) },
     authorization_endpoint : Endpoints, token_endpoint : Endpoints]

DiscoveryErr == [ok |-> FALSE, error |-> "Discovery"]

\* OidcConfig::discover (discovery.rs:21-58)
Discover(resp) ==
    IF ~resp.sent THEN DiscoveryErr
    ELSE IF ~(resp.status >= 200 /\ resp.status <= 299) THEN DiscoveryErr
    ELSE IF ~resp.json
            \/ IsNone(resp.issuer)
            \/ IsNone(resp.authorization_endpoint)
            \/ IsNone(resp.token_endpoint)
         THEN DiscoveryErr
    ELSE IF Unwrap(resp.authorization_endpoint) = EmptyString THEN DiscoveryErr
    ELSE IF Unwrap(resp.token_endpoint) = EmptyString THEN DiscoveryErr
    ELSE [ok |-> TRUE,
          config |-> [issuer |-> Unwrap(resp.issuer),
                      authorization_endpoint |-> Unwrap(resp.authorization_endpoint),
                      token_endpoint |-> Unwrap(resp.token_endpoint)]]

\* TokenInfo::load_from_disk as a Result (token.rs:144-172): the contents of
\* a file that is there go through serde_json::from_str(..)?
TryLoadFromDisk(file, t) ==
    IF file.exists /\ ~file.parses
    THEN [ok |-> FALSE, error |-> "Json"]
    ELSE [ok |-> TRUE, value |-> LoadFromDisk(file, t)]

\* OidcClient::new (client.rs:25-47)
New(resp, file, t) ==
    LET oidc_config == Discover(resp)
        loaded == TryLoadFromDisk(file, t)
    IN  IF ~oidc_config.ok THEN oidc_config
        ELSE IF ~loaded.ok THEN loaded
        ELSE [ok |-> TRUE, oidc_config |-> oidc_config.config,
              token_info |-> loaded.value]

\* cache files OidcClient::new can find
CacheFiles == InitialFiles \cup { TruncatedFile }

\* "_tokens.json"
TokensJsonSuffix == << 95, 116, 111, 107, 101, 110, 115, 46, 106, 115, 111, 110 >>

\* TokenInfo::get_token_file_path (token.rs:124-130): the file name within
\* the storage directory
GetTokenFilePath(issuer_url) == SanitizeIssuer(issuer_url) \o TokensJsonSuffix

\* the issuers of two clients: those of IssuerUrls that have a scheme, and
\* "https://a:"
CacheIssuers ==
    { u \in IssuerUrls : StartsWith(u, HttpsPrefix) \/ StartsWith(u, HttpPrefix) }
    \cup { HttpsPrefix \o << 97, 58 >> }

InitFun ==
    /\ ClientQuiet
    /\ ValidOff
    /\ BridgeOff
    /\ MainOff
    /\ ListenerOff
    /\ f_op = "start"
    /\ f_in = << >>
    /\ f_out = << >>

\* token.rs:133-172: save_to_disk at one clock reading, load_from_disk of
\* the file written at a later one
ApplySaveLoad(saved_at, age, token) ==
    /\ f_op = "start"
    /\ f_op' = "save_load"
    /\ f_in' = [token |-> token, saved_at |-> saved_at, loaded_at |-> saved_at + age]
    /\ LET file == SaveToDisk(token, NoFile, "ok")
       IN  f_out' = [file |-> file, loaded |-> LoadFromDisk(file, saved_at + age)]
    /\ UNCHANGED << clientVars, taskVars, validVars, bridgeVars, mainVars,
                    listenerVars >>

\* config.rs:98-109: Config::scopes
ApplyScopes(scopes_opt) ==
    /\ f_op = "start"
    /\ f_op' = "scopes"
    /\ f_in' = scopes_opt
    /\ f_out' = Scopes(scopes_opt)
    /\ UNCHANGED << clientVars, taskVars, validVars, bridgeVars, mainVars,
                    listenerVars >>

\* token.rs:115-121: TokenInfo::sanitize_issuer
ApplySanitize(issuer_url) ==
    /\ f_op = "start"
    /\ f_op' = "sanitize"
    /\ f_in' = issuer_url
    /\ f_out' = SanitizeIssuer(issuer_url)
    /\ UNCHANGED << clientVars, taskVars, validVars, bridgeVars, mainVars,
                    listenerVars >>

\* discovery.rs:21-58: OidcConfig::discover
ApplyDiscover(resp) ==
    /\ f_op = "start"
    /\ f_op' = "discover"
    /\ f_in' = resp
    /\ f_out' = Discover(resp)
    /\ UNCHANGED << clientVars, taskVars, validVars, bridgeVars, mainVars,
                    listenerVars >>

\* client.rs:25-47: OidcClient::new
ApplyNew(resp, file, t) ==
    /\ f_op = "start"
    /\ f_op' = "new"
    /\ f_in' = [discovery |-> resp, file |-> file, now |-> t]
    /\ f_out' = New(resp, file, t)
    /\ UNCHANGED << clientVars, taskVars, validVars, bridgeVars, mainVars,
                    listenerVars >>

\* token.rs:133-141, 144-172: a bundle is saved for one issuer into an
\* empty storage directory, then the cache of another issuer is loaded
ApplySaveForLoadFor(saved_for, loaded_for) ==
    /\ f_op = "start"
    /\ f_op' = "save_for_load_for"
    /\ f_in' = [saved_for |-> saved_for, loaded_for |-> loaded_for]
    /\ LET token == FromTokenResponse(TokenResponse(TokA, None, None), 0)
           saved == SaveToDisk(token, NoFile, "ok")
           found == IF GetTokenFilePath(loaded_for) = GetTokenFilePath(saved_for)
                    THEN saved ELSE NoFile
       IN  f_out' = [saved_path |-> GetTokenFilePath(saved_for),
                     loaded_path |-> GetTokenFilePath(loaded_for),
                     loaded |-> LoadFromDisk(found, 0)]
    /\ UNCHANGED << clientVars, taskVars, validVars, bridgeVars, mainVars,
                    listenerVars >>

NextFun ==
    \/ \E saved_for, loaded_for \in CacheIssuers :
          ApplySaveForLoadFor(saved_for, loaded_for)
    \/ \E resp \in DiscoveryResponses : ApplyDiscover(resp)
    \/ \E resp \in DiscoveryResponses, file \in CacheFiles :
          ApplyNew(resp, file, 100)
    \/ \E scopes_opt \in ScopeStrings : ApplyScopes(scopes_opt)
    \/ \E issuer_url \in IssuerUrls : ApplySanitize(issuer_url)
    \/ \E saved_at \in { 0, 100 }, age \in { 0, 50, MaxAge } :
          \E token \in SavedBundles(saved_at) : ApplySaveLoad(saved_at, age, token)

\* a run applies one of the functions once, to one input
SpecFun == InitFun /\ [][NextFun]_vars

RECURSIVE Without(_, _)
Without(seq, x) ==
    IF seq = << >> THEN << >>
    ELSE IF Head(seq) = x THEN Without(Tail(seq), x)
         ELSE << Head(seq) >> \o Without(Tail(seq), x)

\* C23: the list Config::scopes gives for a scopes string contains openid
\* exactly once, and its other elements are the other words of the
\* string in their order.
C23_OpenidExactlyOnce ==
    f_op = "scopes" =>
        LET words == SplitWhitespace(IF f_in = << >> THEN DEFAULT_SCOPES
                                     ELSE f_in[1], << >>)
        IN  /\ Cardinality({ i \in 1..Len(f_out) : f_out[i] = Openid }) = 1
            /\ Without(f_out, Openid) = Without(words, Openid)

\* U with one leading "http://" or "https://" removed
C24_StripOne(u) ==
    IF StartsWith(u, HttpsPrefix) THEN SubSeq(u, Len(HttpsPrefix) + 1, Len(u))
    ELSE IF StartsWith(u, HttpPrefix) THEN SubSeq(u, Len(HttpPrefix) + 1, Len(u))
    ELSE u

\* C24: sanitize_issuer(U) contains neither "/" nor ":", and is U with one
\* leading "http://" or "https://" removed and every "/" and ":" replaced
\* by "_" (a function of U: equal inputs give equal outputs).
C24_SanitizeRule ==
    f_op = "sanitize" =>
        /\ \A i \in 1..Len(f_out) : f_out[i] \notin { 47, 58 }
        /\ f_out = [i \in 1..Len(C24_StripOne(f_in)) |->
                       IF C24_StripOne(f_in)[i] \in { 47, 58 } THEN 95
                       ELSE C24_StripOne(f_in)[i]]

\* an absolute http(s) URL
IsAbsoluteUrl(str) == StartsWith(str, HttpsPrefix) \/ StartsWith(str, HttpPrefix)

\* the responses for which the contract lets discovery succeed
C25_Acceptable(resp) ==
    /\ resp.sent
    /\ resp.status \in 200..299
    /\ resp.json
    /\ IsSome(resp.issuer)
    /\ \A e \in { resp.authorization_endpoint, resp.token_endpoint } :
          IsSome(e) /\ e[1] # EmptyString /\ IsAbsoluteUrl(e[1])

\* C25: discover returns a config only when the status is 2xx, the body is
\* JSON and both required endpoints are present, non-empty absolute URLs;
\* otherwise it fails with Discovery, and then OidcClient::new fails with
\* Discovery too.
C25_DiscoverAcceptsOnlyAbsoluteEndpoints ==
    /\ f_op = "discover" =>
          /\ f_out.ok <=> C25_Acceptable(f_in)
          /\ ~f_out.ok => f_out.error = "Discovery"
    /\ (f_op = "new" /\ ~C25_Acceptable(f_in.discovery)) =>
          ~f_out.ok /\ f_out.error = "Discovery"

\* C26: after a successful discovery OidcClient::new succeeds whatever the
\* state of the cache file: with an empty cache when there is no file or
\* the file does not parse, with the loaded bundle otherwise.
C26_CacheFileNeverFailsConstruction ==
    (f_op = "new" /\ Discover(f_in.discovery).ok) =>
        /\ f_out.ok
        /\ f_out.token_info =
             IF f_in.file.exists /\ f_in.file.parses
             THEN LoadFromDisk(f_in.file, f_in.now)
             ELSE None

\* the records of the message log in one direction
LogRecordsOf(direction) ==
    LET InDirection(rec) == rec.direction = direction
    IN  SelectSeq(b_log, InDirection)

\* C27: with message logging on, whenever the loop is back at read_line
\* every forwarded line has its three records: CLIENT -> PROXY with the
\* line, then BACKEND -> PROXY with the body or error JSON, then
\* PROXY -> CLIENT with what was written to stdout; and at no time are
\* there more PROXY -> CLIENT records than completed stdout writes.
C27_ThreeRecordsPerForwardedLine ==
    /\ (b_logging /\ b_pc = "read") =>
          /\ Len(LogRecordsOf("BACKEND -> PROXY")) = Len(b_forwarded)
          /\ Len(LogRecordsOf("PROXY -> CLIENT")) = Len(b_forwarded)
          /\ \A j \in 1..Len(b_log) :
                b_log[j].direction = "PROXY -> CLIENT" =>
                   /\ j >= 3
                   /\ b_log[j - 1].direction = "BACKEND -> PROXY"
                   /\ b_log[j - 1].data = b_log[j].data
                   /\ b_log[j - 2].direction = "CLIENT -> PROXY"
          /\ \A i \in 1..Len(b_forwarded) :
                LogRecordsOf("PROXY -> CLIENT")[i].data = b_stdout[3 * i - 2].data
    /\ 3 * Len(LogRecordsOf("PROXY -> CLIENT")) <= Len(b_stdout)

\* C28: a request that cannot be cloned makes handle return a middleware
\* error: nothing is sent upstream, the task does not panic, and what the
\* caller gets is an error.
C28_CloneFailureIsAMiddlewareError ==
    \A t \in Tasks :
        ~req[t].cloneable =>
            /\ pc[t] # "panicked"
            /\ sent[t] = << >>
            /\ pc[t] = "done" => (IsSome(result[t]) /\ ~Unwrap(result[t]).ok)

\* C29: every attempt sent upstream for a request has the method, URL,
\* body and headers of that request, except for Authorization, which is
\* "Bearer " and a token whether or not the request had one; there are at
\* most two attempts.
C29_OnlyAuthorizationChanges ==
    \A t \in Tasks :
        /\ Len(sent[t]) <= 2
        /\ \A i \in 1..Len(sent[t]) :
              /\ sent[t][i].method = req[t].method
              /\ sent[t][i].url = req[t].url
              /\ sent[t][i].body = req[t].body
              /\ sent[t][i].custom = req[t].custom
              /\ IsSome(sent[t][i].authorization)
              /\ StartsWith(sent[t][i].authorization[1], BearerPrefix)
              /\ sent[t][i].authorization # req[t].authorization

\* two attempts with different tokens for a request that came with an
\* Authorization header of its own
C29_Witness ==
    \E t \in Tasks :
        /\ Len(sent[t]) = 2
        /\ IsSome(req[t].authorization)
        /\ IsSome(req[t].custom)
        /\ sent[t][1].authorization # sent[t][2].authorization

\* the places where a task waits for the lock, holds a read guard, holds
\* the write guard
LockWaitPcs == { "gt_lock", "rn_lock", "rf_lock", "rf_wlock", "fl_wlock" }
ReadHoldPcs == { "gt_read", "rn_read", "rf_read" }
WriteHoldPcs == { "rf_write", "fl_write" }
\* the places where a renewal waits for the network or for the callback
NetworkPcs == { "rf_post", "flow_wait", "ex_post" }

\* C30: a task holds a read guard only while it looks at the cached bundle
\* and the write guard only for the final assignment: never while it
\* waits for the lock, for the token endpoint or for the callback, and not
\* after get_token or renew_token has returned.  So whenever a task waits
\* for the lock, the lock is free for it or its holders are at a step that
\* releases it without waiting for anything.
C30_NoLockAcrossIO ==
    /\ \A t \in Tasks :
          /\ t \in rlock => pc[t] \in ReadHoldPcs
          /\ wlock = t => pc[t] \in WriteHoldPcs
          /\ pc[t] \in LockWaitPcs \cup NetworkPcs => (t \notin rlock /\ wlock # t)
    /\ wlock # NoTask => rlock = {}
    /\ \A t \in Tasks :
          pc[t] \in LockWaitPcs =>
             \/ IF pc[t] \in { "rf_wlock", "fl_wlock" } THEN CanWrite ELSE CanRead
             \/ \E u \in Tasks \ {t} :
                   /\ u \in rlock \/ wlock = u
                   /\ pc[u] \in ReadHoldPcs \cup WriteHoldPcs

\* a get_token has returned the valid cached token while the renewal of
\* the other task waits for the token endpoint or for the callback
C30_Witness ==
    \E t, u \in Tasks :
        /\ t # u
        /\ pc[t] = "returned"
        /\ h[t].renews[1] = 0
        /\ CachedBundleValidNow
        /\ tokres[t] = OkToken(token_info[1].access_token)
        /\ pc[u] \in NetworkPcs

\* the bundles load_from_disk gives for the cache files a run may start with
LoadedBundles ==
    { Unwrap(LoadFromDisk(file, 0)) : file \in InitialFiles \ { NoFile } }

\* C31: the cache is always empty or one whole bundle, parsed from one
\* answer of the token endpoint or loaded from the cache file; and each
\* final assignment of a renewal, whatever other renewals run, makes the
\* cache the bundle of the renewal that assigns (the later write wins).
C31_LaterWriteWins ==
    /\ [](token_info = None \/ Unwrap(token_info) \in ParsedBundles \cup LoadedBundles)
    /\ [][ \A t \in Tasks :
              (pc[t] \in WriteHoldPcs /\ pc'[t] # pc[t]) =>
                  /\ IsSome(tokens[t])
                  /\ token_info' = tokens[t] ]_vars

\* two overlapping renewals have both completed, and the cache holds the
\* bundle of one of them, which differs from the other's
C31_Witness ==
    \E t, u \in Tasks :
        /\ t # u
        /\ pc[t] = "returned" /\ pc[u] = "returned"
        /\ h[t].cache_writes[1] = 1 /\ h[u].cache_writes[1] = 1
        /\ tokres[t].ok /\ tokres[u].ok
        /\ tokres[t].token # tokres[u].token
        /\ IsSome(token_info)
        /\ Unwrap(token_info).access_token = tokres[u].token

\* C32: from the moment the authorization URL has been handed to the
\* browser (or printed) until the flow has its callback or ends, this
\* flow's listener is bound on the redirect port.
C32_ListenerBoundBeforeUrl ==
    \A t \in Tasks :
        pc[t] \in { "flow_bind", "flow_wait" } => port_owner = t

\* the cache is still the bundle OidcClient::new loaded: no request has
\* got as far as a final assignment
StillLoaded ==
    /\ IsSome(token_info)
    /\ \A t \in Tasks : h[t].cache_writes = << 0, 0 >>
    /\ started <= 1

C34_DiskEqualsMemory ==
    (/\ \A t \in Tasks : pc[t] \in { "idle", "returned" }
     /\ \E t \in Tasks : pc[t] = "returned" /\ h[t].cache_writes[1] = 1
     /\ disk.exists /\ disk.parses) =>
        /\ IsSome(token_info)
        /\ disk.json.access_token = Unwrap(token_info).access_token
        /\ disk.json.refresh_token = Unwrap(token_info).refresh_token

\* C35: the cached bundle changes only in a step that makes the call of
\* the stepping task return Ok, and then to a bundle, never to nothing; a
\* get_token or renew_token that has returned an error has made no
\* assignment to the cache.
C35_ErrorLeavesCacheAlone ==
    /\ [][ token_info' # token_info =>
              /\ IsSome(token_info')
              /\ \E t \in Tasks :
                    /\ pc'[t] # pc[t]
                    /\ pc'[t] = RetPc(t)
                    /\ tokres'[t].ok
                    /\ h'[t].cache_writes[Phase(t)] = h[t].cache_writes[Phase(t)] + 1
           ]_vars
    /\ [](\A t \in Tasks :
              (pc[t] \in { "mw_step1", "mw_step3", "returned" } /\ ~tokres[t].ok) =>
                  h[t].cache_writes[Phase(t)] = 0)
    /\ [][ IsSome(token_info) => IsSome(token_info') ]_vars

\* a renewal has returned the error of a failed save with a bundle cached
C35_Witness ==
    \E t \in Tasks :
        /\ pc[t] \in { "mw_step1", "mw_step3" }
        /\ tokres[t] = ErrToken("Io")
        /\ h[t].exchange_posts[Phase(t)] = 1
        /\ IsSome(token_info)

\* C36: when get_token has returned Ok(t) to the middleware, t is not
\* empty and is the access token of the cached bundle, and that bundle can
\* be valid at all: its expires_in, if any, exceeds the 60 second buffer
\* (a bundle with a smaller expires_in is invalid from the moment it is
\* made).
C36_ReturnedTokenIsValid ==
    \A t \in Tasks :
        (pc[t] = "mw_step1" /\ tokres[t].ok) =>
            /\ tokres[t].token # EmptyString
            /\ IsSome(token_info)
            /\ Unwrap(token_info).access_token = tokres[t].token
            /\ IsSome(Unwrap(token_info).expires_in) =>
                  Unwrap(Unwrap(token_info).expires_in) > TOKEN_EXPIRY_BUFFER_SECS

\* C37 as stated: one request causes at most one renewal, and so at most
\* one browser flow.
C37_Original ==
    \A t \in Tasks :
        /\ h[t].renews[1] + h[t].renews[2] <= 1
        /\ h[t].flows[1] + h[t].flows[2] <= 1

\* C37 amended: one request causes at most one renewal inside get_token
\* and, exactly when its first attempt was answered 401, one renew_token
\* more, whether or not the first token was fresh; each renewal runs at
\* most one refresh grant and one full flow.
C37_AtMostOneRenewalPerStep ==
    \A t \in Tasks :
        /\ h[t].renews[1] <= 1 /\ h[t].renews[2] <= 1
        /\ \A ph \in 1..2 :
              /\ h[t].refreshes[ph] <= h[t].renews[ph]
              /\ h[t].flows[ph] <= h[t].renews[ph]
              /\ h[t].browsers[ph] <= h[t].flows[ph]
        /\ h[t].renews[2] = 1 <=> FirstWasUnauthorized(t)

\* one request has caused two renewals and two browser flows: get_token
\* renewed, the fresh token got a 401, renew_token ran the flow again
C37_Witness ==
    \E t \in Tasks :
        /\ h[t].renews = << 1, 1 >>
        /\ h[t].browsers = << 1, 1 >>
        /\ pc[t] = "done"

\* C38: when a renewal has succeeded by the refresh grant alone, the
\* bundle now cached and the bundle in the cache file have a refresh
\* token, as the bundle before the grant had.
C38_RefreshKeepsRefreshToken ==
    \A t \in Tasks :
        (/\ pc[t] \in { "mw_step1", "mw_step3" }
         /\ tokres[t].ok
         /\ h[t].refresh_posts[Phase(t)] = 1
         /\ h[t].flows[Phase(t)] = 0
         /\ h[t].cache_writes[Phase(t)] = 1) =>
            /\ IsSome(token_info)
            /\ IsSome(Unwrap(token_info).refresh_token)
            /\ disk.exists /\ disk.parses
            /\ IsSome(disk.json.refresh_token)

\* C39: two different issuer URLs have two different cache files, and a
\* bundle saved for one is not what load_from_disk gives for the other.
C39_CacheKeyedPerIssuer ==
    (f_op = "save_for_load_for" /\ f_in.saved_for # f_in.loaded_for) =>
        /\ f_out.saved_path # f_out.loaded_path
        /\ f_out.loaded = None

(***************************************************************************)
(* The bridge loop under the assumption that every operation it awaits     *)
(* (the POST through the middleware, the reads of the body, the writes to  *)
(* the message log and to stdout) returns or fails; only read_line may     *)
(* wait forever.                                                           *)
(***************************************************************************)
SpecBridgeLive ==
    /\ InitBridge
    /\ [][NextBridge]_vars
    /\ WF_vars(\E io \in LogOutcomes : LogRequest(io))
    /\ WF_vars(\E o \in ForwardOutcomes : Forward(o))
    /\ WF_vars(\E io \in LogOutcomes : LogBackend(io))
    /\ WF_vars(\E io \in StdoutOutcomes : WriteReply(io))
    /\ WF_vars(\E io \in LogOutcomes : LogReply(io))

\* C40: unless stdin or stdout fails, the n-th line read that is valid
\* JSON is eventually answered (the n-th write, newline and flush are on
\* stdout) with the loop back at read_line or ended.
C40_EveryLineEventuallyAnswered ==
    \A n \in 1..MaxLines :
        (b_pc = "log_request" /\ IsJson(b_line) /\ Len(b_accepted) = n)
            ~> \/ StdioFailed
               \/ (Len(b_stdout) = 3 * n /\ b_pc \in { "read", "stopped" })
====
